---------------------------- MODULE Spec2Model ----------------------------
(***************************************************************************)
(* go_chirp_the_tap: TAP file validation, the pulse reader, the loader     *)
(* recognizers, the Segmenter loop of ProcessTAPData, the IDX merge and    *)
(* the two entry points (cmd/main.go, mobile/api.go).                      *)
(*                                                                         *)
(* Positions are 0-based file offsets exactly as in the Go code; a byte    *)
(* stream is a TLA+ sequence, so At(d, p) reads d[p + 1].                  *)
(* PCM is kept as a sample count (len(pcm)); the sample values are given   *)
(* by generateWave/_generatePause and are not stored in the state.         *)
(***************************************************************************)
EXTENDS Integers, Sequences, FiniteSets, TLC

(***************************************************************************)
(* internal/constants                                                      *)
(***************************************************************************)
ClockPAL == 985248
ClockNTSC == 1022727
SampleRate == 44100
MinLeadToneLength == 25000
MaxOffset == 1500
TapHeaderSize == 20
TapMaxVersionSupport == 1
PULSES_IN_BYTE == 8
PULSES_IN_CBM_BYTE == 20
DefaultTolerance == 16
TapSignatureC64 == <<67, 54, 52, 45, 84, 65, 80, 69, 45, 82, 65, 87>>

\* the Turbotape trailer length and the v0 pause length, literals of ProcessTAPData
TrailerSize == 7648
V0PauseCycles == 20000

(***************************************************************************)
(* internal/loaders/formats.go                                             *)
(***************************************************************************)
NA == -1
LSbF == 0
MSbF == 1
CBM_HEAD == 3
CBM_DATA == 4
TT_HEAD == 5
TT_DATA == 6
PMaxDefault == 200000

Ft(fmtIdx) ==
    CASE fmtIdx = CBM_HEAD ->
           [Endian |-> LSbF, TP |-> NA, SP |-> 48, MP |-> 66, LP |-> 86,
            PV |-> NA, SV |-> NA, PMin |-> 50, PMax |-> NA]
      [] fmtIdx = CBM_DATA ->
           [Endian |-> LSbF, TP |-> NA, SP |-> 48, MP |-> 66, LP |-> 86,
            PV |-> NA, SV |-> NA, PMin |-> 50, PMax |-> NA]
      [] fmtIdx = TT_HEAD ->
           [Endian |-> MSbF, TP |-> 32, SP |-> 26, MP |-> NA, LP |-> 40,
            PV |-> 2, SV |-> 9, PMin |-> 50, PMax |-> NA]
      [] fmtIdx = TT_DATA ->
           [Endian |-> MSbF, TP |-> 32, SP |-> 26, MP |-> NA, LP |-> 40,
            PV |-> 2, SV |-> 9, PMin |-> 50, PMax |-> NA]
      [] OTHER ->
           [Endian |-> 0, TP |-> 0, SP |-> 0, MP |-> 0, LP |-> 0,
            PV |-> 0, SV |-> 0, PMin |-> 0, PMax |-> 0]

(***************************************************************************)
(* small helpers                                                           *)
(***************************************************************************)
At(d, p) == d[p + 1]

abs(x) == IF x < 0 THEN -x ELSE x

Min2(a, b) == IF a < b THEN a ELSE b

\* the first position q in lo..hi-1 at which P(q) holds, hi when there is none
\* (the exit position of a Go loop "for q < hi && !P(q) { q++ }")
FirstPos(lo, hi, P(_)) ==
    IF lo >= hi THEN lo
    ELSE CHOOSE q \in lo..hi : (q = hi \/ P(q)) /\ \A r \in lo..(q - 1) : ~P(r)

(***************************************************************************)
(* internal/loaders/reader.go                                              *)
(***************************************************************************)
\* the variant without the lower limit
ReadBitNoShort(tapData, pos, lp, sp, tp, tol) ==
    IF pos < 0 \/ pos >= Len(tapData) THEN -1
    ELSE LET p1 == At(tapData, pos)
         IN  IF p1 > lp + tol THEN -1
             ELSE IF tp # NA
                  THEN (IF p1 < tp THEN 0 ELSE 1)
                  ELSE (IF abs(p1 - sp) < abs(p1 - lp) THEN 0 ELSE 1)

\* -1 stands for the (-1, err) result
ReadBit(tapData, pos, lp, sp, tp, tol) ==
    IF pos < 0 \/ pos >= Len(tapData) THEN -1
    ELSE LET p1 == At(tapData, pos)
         IN  IF p1 < sp - tol THEN -1
             ELSE IF p1 > lp + tol THEN -1
             ELSE IF tp # NA
                  THEN (IF p1 < tp THEN 0 ELSE 1)
                  ELSE (IF abs(p1 - sp) < abs(p1 - lp) THEN 0 ELSE 1)

\* the variant that takes every profile for MSB-first
ByteOfMSb(bit, endi) ==
    IF \E i \in 0..7 : bit[i] = -1 THEN -1
    ELSE bit[0] * 128 + bit[1] * 64 + bit[2] * 32 + bit[3] * 16
       + bit[4] * 8 + bit[5] * 4 + bit[6] * 2 + bit[7]

\* the byte assembled from the eight bits read, -1 when one of them failed
ByteOf(bit, endi) ==
    IF \E i \in 0..7 : bit[i] = -1 THEN -1
    ELSE IF endi = MSbF
    THEN bit[0] * 128 + bit[1] * 64 + bit[2] * 32 + bit[3] * 16
       + bit[4] * 8 + bit[5] * 4 + bit[6] * 2 + bit[7]
    ELSE bit[0] + bit[1] * 2 + bit[2] * 4 + bit[3] * 8
       + bit[4] * 16 + bit[5] * 32 + bit[6] * 64 + bit[7] * 128

ReadByte(tapData, pos, lp, sp, tp, endi, tol) ==
    IF pos < 0 \/ pos + 7 >= Len(tapData) THEN -1
    ELSE ByteOf([i \in 0..7 |-> ReadBit(tapData, pos + i, lp, sp, tp, tol)], endi)

\* the variant that takes a run of exactly PMin units for too short
findPilotInStrict(n, pos, f, pmax, bit, byte) ==
    IF (f.PV = 0 \/ f.PV = 1) /\ (f.SV = 0 \/ f.SV = 1)
    THEN IF bit[pos] = -1 THEN [pos |-> 0, found |-> FALSE, err |-> TRUE]
         ELSE IF bit[pos] = f.PV
         THEN LET endPos == FirstPos(pos, n, LAMBDA q : bit[q] # f.PV)
                  z == endPos - pos
              IN  IF z = 0 THEN [pos |-> 0, found |-> FALSE, err |-> FALSE]
                  ELSE IF z <= f.PMin \/ z > pmax
                  THEN [pos |-> endPos, found |-> FALSE, err |-> FALSE]
                  ELSE [pos |-> endPos, found |-> TRUE, err |-> FALSE]
         ELSE [pos |-> 0, found |-> FALSE, err |-> FALSE]
    ELSE IF byte[pos] = -1 THEN [pos |-> 0, found |-> FALSE, err |-> TRUE]
         ELSE IF byte[pos] = f.PV
         THEN LET maxUnits == (n - pos) \div 8 + 1
                  z == FirstPos(0, maxUnits, LAMBDA k : byte[pos + 8 * k] # f.PV)
                  endPos == pos + 8 * z
              IN  IF z = 0 THEN [pos |-> 0, found |-> FALSE, err |-> FALSE]
                  ELSE IF z <= f.PMin \/ z > pmax
                  THEN [pos |-> endPos, found |-> FALSE, err |-> FALSE]
                  ELSE [pos |-> endPos, found |-> TRUE, err |-> FALSE]
         ELSE [pos |-> 0, found |-> FALSE, err |-> FALSE]

\* findPilot for the format record f with its effective pmax; bit holds ReadBit
\* and byte holds ReadByte at every position
findPilotIn(n, pos, f, pmax, bit, byte) ==
    IF (f.PV = 0 \/ f.PV = 1) /\ (f.SV = 0 \/ f.SV = 1)
    THEN IF bit[pos] = -1 THEN [pos |-> 0, found |-> FALSE, err |-> TRUE]
         ELSE IF bit[pos] = f.PV
         THEN LET endPos == FirstPos(pos, n, LAMBDA q : bit[q] # f.PV)
                  z == endPos - pos
              IN  IF z = 0 THEN [pos |-> 0, found |-> FALSE, err |-> FALSE]
                  ELSE IF z < f.PMin \/ z > pmax
                  THEN [pos |-> endPos, found |-> FALSE, err |-> FALSE]
                  ELSE [pos |-> endPos, found |-> TRUE, err |-> FALSE]
         ELSE [pos |-> 0, found |-> FALSE, err |-> FALSE]
    ELSE IF byte[pos] = -1 THEN [pos |-> 0, found |-> FALSE, err |-> TRUE]
         ELSE IF byte[pos] = f.PV
         THEN LET maxUnits == (n - pos) \div 8 + 1
                  z == FirstPos(0, maxUnits, LAMBDA k : byte[pos + 8 * k] # f.PV)
                  endPos == pos + 8 * z
              IN  IF z = 0 THEN [pos |-> 0, found |-> FALSE, err |-> FALSE]
                  ELSE IF z < f.PMin \/ z > pmax
                  THEN [pos |-> endPos, found |-> FALSE, err |-> FALSE]
                  ELSE [pos |-> endPos, found |-> TRUE, err |-> FALSE]
         ELSE [pos |-> 0, found |-> FALSE, err |-> FALSE]

findPilotFmt(tapData, pos, f, tol) ==
    findPilotIn(Len(tapData), pos, f, IF f.PMax = NA THEN PMaxDefault ELSE f.PMax,
                [q \in Nat |-> ReadBit(tapData, q, f.LP, f.SP, f.TP, tol)],
                [q \in Nat |-> ReadByte(tapData, q, f.LP, f.SP, f.TP, f.Endian, tol)])

\* result: [pos, found, err]
findPilot(tapData, pos, fmtIdx, tol) ==
    IF pos < TapHeaderSize THEN [pos |-> 0, found |-> FALSE, err |-> FALSE]
    ELSE findPilotFmt(tapData, pos, Ft(fmtIdx), tol)

(***************************************************************************)
(* internal/loaders/turbotape.go: Turbotape-250 head recognizer            *)
(***************************************************************************)
NoMatch == [ok |-> FALSE, length |-> 0, blockID |-> 0, psize |-> 0, pilotEndPos |-> 0]

\* the recognizer after its pilot search.  n is len(tapData), p0 the pilot's end
\* and rd[q] the byte read at q: -1 when "currentPos+pulsesInByte > len(tapData)"
\* or when ReadByte fails
TTMatch(n, startPos, pulsesInByte, p0, rd) ==
    LET expectedSequence == <<9, 8, 7, 6, 5, 4, 3, 2, 1>>
        seqOK == \A k \in 1..9 : rd[p0 + (k - 1) * pulsesInByte] = expectedSequence[k]
        blockIDPos == p0 + 9 * pulsesInByte
        blockID == rd[blockIDPos]
        a0 == blockIDPos + pulsesInByte
        isHeader == blockID = 1 \/ blockID = 2
        addrOK == \A k \in 0..3 : rd[a0 + k * pulsesInByte] # -1
        startAddr == rd[a0] + rd[a0 + pulsesInByte] * 256
        endAddr == rd[a0 + 2 * pulsesInByte] + rd[a0 + 3 * pulsesInByte] * 256
        psize == IF isHeader THEN (endAddr - startAddr) + 1 ELSE 0
        \* filename: up to 16 bytes, leaving at the first one that cannot be read
        fn0 == a0 + 4 * pulsesInByte
        fnRead == FirstPos(0, 16, LAMBDA k : rd[fn0 + k * pulsesInByte] = -1)
        fnEnd == fn0 + fnRead * pulsesInByte
        \* padding: consecutive bytes of value 0x20
        padMax == IF n > fnEnd THEN (n - fnEnd) \div pulsesInByte + 1 ELSE 0
        padRead == FirstPos(0, padMax,
                      LAMBDA k : ~(fnEnd + k * pulsesInByte < n
                                   /\ rd[fnEnd + k * pulsesInByte] = 32))
        padEnd == fnEnd + padRead * pulsesInByte
        \* position at which the checksum byte is read
        csPos == IF isHeader THEN padEnd ELSE a0
        endPos == IF isHeader /\ fnRead < 16 THEN fnEnd
                  ELSE IF rd[csPos] # -1 THEN csPos + pulsesInByte ELSE csPos
    IN  IF ~seqOK THEN NoMatch
        ELSE IF blockID = -1 THEN NoMatch
        ELSE IF isHeader /\ ~addrOK THEN NoMatch
        ELSE [ok |-> TRUE, length |-> endPos - startPos, blockID |-> blockID,
              psize |-> psize, pilotEndPos |-> p0]

\* the variant that goes on behind a pilot run that is no legal pilot
TTAfterAnyRun(tapData, startPos, defaultTolerance, pulsesInByte, f, pilot) ==
    IF pilot.err \/ pilot.pos = 0 THEN NoMatch
    ELSE TTMatch(Len(tapData), startPos, pulsesInByte, pilot.pos,
            [q \in Nat |->
                IF q + pulsesInByte > Len(tapData) THEN -1
                ELSE ReadByte(tapData, q, f.LP, f.SP, f.TP, f.Endian, defaultTolerance)])

TTAfterPilot(tapData, startPos, defaultTolerance, pulsesInByte, f, pilot) ==
    IF pilot.err \/ ~pilot.found THEN NoMatch
    ELSE TTMatch(Len(tapData), startPos, pulsesInByte, pilot.pos,
            [q \in Nat |->
                IF q + pulsesInByte > Len(tapData) THEN -1
                ELSE ReadByte(tapData, q, f.LP, f.SP, f.TP, f.Endian, defaultTolerance)])

\* the variant whose payload size is endAddr - startAddr
TurbotapeLeadPlainSize(r) ==
    IF r.ok /\ (r.blockID = 1 \/ r.blockID = 2) THEN [r EXCEPT !.psize = @ - 1] ELSE r

IsTurbotape250LeadPlain(tapData, startPos, defaultTolerance, pulsesInByte) ==
    TurbotapeLeadPlainSize(
        TTAfterPilot(tapData, startPos, defaultTolerance, pulsesInByte, Ft(TT_HEAD),
                     findPilot(tapData, startPos, TT_HEAD, defaultTolerance)))

\* result: [ok, length, blockID, psize, pilotEndPos]
IsTurbotape250Lead(tapData, startPos, defaultTolerance, pulsesInByte) ==
    TTAfterPilot(tapData, startPos, defaultTolerance, pulsesInByte, Ft(TT_HEAD),
                 findPilot(tapData, startPos, TT_HEAD, defaultTolerance))

(***************************************************************************)
(* internal/loaders/turbotape.go: CBM pulse-pair reader and recognizers    *)
(***************************************************************************)
PULSE_S == 0
PULSE_M == 1
PULSE_L == 2

\* "Handle ambiguities": the class of a pulse from its window tests
cbm_class(p, sp, mp, lp, inS, inM, inL) ==
    IF inS /\ inM /\ ~inL THEN (IF abs(p - sp) < abs(p - mp) THEN PULSE_S ELSE PULSE_M)
    ELSE IF ~inS /\ inM /\ inL THEN (IF abs(p - mp) < abs(p - lp) THEN PULSE_M ELSE PULSE_L)
    ELSE IF inL THEN PULSE_L
    ELSE IF inM THEN PULSE_M
    ELSE PULSE_S

\* the class b and the ambiguity mask amb of one pulse
cbm_window(p, sp, mp, lp, inS, inM, inL) ==
    [b |-> cbm_class(p, sp, mp, lp, inS, inM, inL),
     amb |-> (IF inS THEN 1 ELSE 0) + (IF inM THEN 2 ELSE 0) + (IF inL THEN 4 ELSE 0)]

cbm_resolve(p, sp, mp, lp, tol) ==
    cbm_window(p, sp, mp, lp,
               p > sp - tol /\ p < sp + tol,
               p > mp - tol /\ p < mp + tol,
               p > lp - tol /\ p < lp + tol)

\* (amb & (amb-1)) != 0 for amb in 0..7: amb has more than one bit set
MoreThanOneBit(amb) == amb \in {3, 5, 6, 7}

cbm_pair(r1, r2) ==
    IF MoreThanOneBit(r1.amb) \/ MoreThanOneBit(r2.amb) THEN -1
    ELSE IF r1.b = PULSE_S /\ r2.b = PULSE_M THEN 0
    ELSE IF r1.b = PULSE_M /\ r2.b = PULSE_S THEN 1
    ELSE IF r1.b = PULSE_L /\ r2.b = PULSE_M THEN 2
    ELSE IF r1.b = PULSE_L /\ r2.b = PULSE_S THEN 3
    ELSE -1

\* 0 / 1: data bit, 2: new-data marker, 3: end-of-data marker, -1: error
cbm_readbit(tapData, pos, sp, mp, lp, tol) ==
    cbm_pair(cbm_resolve(At(tapData, pos), sp, mp, lp, tol),
             cbm_resolve(At(tapData, pos + 1), sp, mp, lp, tol))

\* the variant that assembles the data bits MSB-first
cbm_frameMSb(bit) ==
    LET fail == [val |-> -1, pulses |-> 0, err |-> TRUE]
        ones == bit[1] + bit[2] + bit[3] + bit[4] + bit[5] + bit[6] + bit[7] + bit[8]
    IN  IF bit[0] # 2 THEN fail
        ELSE IF ~(\A k \in 1..8 : bit[k] = 0 \/ bit[k] = 1) THEN fail
        ELSE IF bit[9] # (1 + ones) % 2 THEN fail
        ELSE [val |-> bit[1] * 128 + bit[2] * 64 + bit[3] * 32 + bit[4] * 16
                    + bit[5] * 8 + bit[6] * 4 + bit[7] * 2 + bit[8],
              pulses |-> 20, err |-> FALSE]

\* the byte of the ten pulse pairs bit[0..9]: marker, 8 data bits, check bit
cbm_frame(bit) ==
    LET fail == [val |-> -1, pulses |-> 0, err |-> TRUE]
        ones == bit[1] + bit[2] + bit[3] + bit[4] + bit[5] + bit[6] + bit[7] + bit[8]
    IN  IF bit[0] # 2 THEN fail
        ELSE IF ~(\A k \in 1..8 : bit[k] = 0 \/ bit[k] = 1) THEN fail
        ELSE IF bit[9] # (1 + ones) % 2 THEN fail
        ELSE [val |-> bit[1] + bit[2] * 2 + bit[3] * 4 + bit[4] * 8
                    + bit[5] * 16 + bit[6] * 32 + bit[7] * 64 + bit[8] * 128,
              pulses |-> 20, err |-> FALSE]

\* result: [val, pulses, err]
cbm_readbyte(tapData, pos, sp, mp, lp, tol) ==
    IF pos < PULSES_IN_CBM_BYTE \/ pos + PULSES_IN_CBM_BYTE > Len(tapData)
    THEN [val |-> -1, pulses |-> 0, err |-> TRUE]
    ELSE IF \E i \in 0..(PULSES_IN_CBM_BYTE - 1) : At(tapData, pos + i) = 0
    THEN [val |-> -1, pulses |-> 0, err |-> TRUE]
    ELSE cbm_frame([k \in 0..9 |-> cbm_readbit(tapData, pos + 2 * k, sp, mp, lp, tol)])

\* the pilot scan shared by IsCBMLead and IsCBMData: [pilotStart, count]
cbm_pilot_from(tapData, lo, hi, pilotStart) ==
    [pilotStart |-> pilotStart,
     count |-> FirstPos(pilotStart, Len(tapData),
                        LAMBDA q : ~(At(tapData, q) >= lo /\ At(tapData, q) <= hi))
               - pilotStart]

cbm_pilot(tapData, startPos, sp, tol) ==
    cbm_pilot_from(tapData, sp - tol, sp + tol,
        FirstPos(startPos, Len(tapData),
                 LAMBDA q : At(tapData, q) >= sp - tol /\ At(tapData, q) <= sp + tol))

\* the sync sequence shared by both: lead byte 0x09 / 0x89, then the countdown;
\* rd[k] is the k-th byte after the pilot
cbm_sync(rd) ==
    /\ ~rd[0].err
    /\ rd[0].val = 9 \/ rd[0].val = 137
    /\ \A k \in 1..8 : ~rd[k].err /\ rd[k].val = rd[0].val - k

\* the end-of-data scan: "for eod < len(tapData)-1 { ...; eod += 2 }"
cbm_eod(tapData, from, sp, mp, lp, tol) ==
    from + 2 * FirstPos(0,
                 IF from < Len(tapData) - 1 THEN (Len(tapData) - from) \div 2 ELSE 0,
                 LAMBDA k : ~(from + 2 * k < Len(tapData) - 1)
                            \/ cbm_readbit(tapData, from + 2 * k, sp, mp, lp, tol) \in {-1, 3})

\* the optional extension of a head to the next zero byte
cbm_extend(n, eod0, pausePos) == IF pausePos > eod0 /\ pausePos < n THEN pausePos ELSE eod0

CBMLeadMatch(startPos, f, pil, pilotEndPos, rd, eod) ==
    LET fileType == rd[9].val
        startAddr == rd[10].val + rd[11].val * 256
        endAddr == rd[12].val + rd[13].val * 256
    IN  IF pil.count < f.PMin THEN NoMatch
        ELSE IF ~cbm_sync(rd) THEN NoMatch
        ELSE IF \E k \in 9..13 : rd[k].err THEN NoMatch
        ELSE IF ~(fileType >= 1 /\ fileType <= 5 /\ endAddr > startAddr) THEN NoMatch
        ELSE [ok |-> TRUE, length |-> eod - startPos, blockID |-> fileType,
              psize |-> endAddr - startAddr, pilotEndPos |-> pilotEndPos]

CBMLeadEnd(tapData, eod0) ==
    cbm_extend(Len(tapData), eod0, FirstPos(eod0, Len(tapData), LAMBDA q : At(tapData, q) = 0))

CBMLeadAt(tapData, startPos, tol, f, pil, pilotEndPos) ==
    CBMLeadMatch(startPos, f, pil, pilotEndPos,
        [k \in 0..13 |-> cbm_readbyte(tapData, pilotEndPos + 20 * k, f.SP, f.MP, f.LP, tol)],
        CBMLeadEnd(tapData, cbm_eod(tapData, pilotEndPos + 20 * 14, f.SP, f.MP, f.LP, tol)))

CBMLeadFmt(tapData, startPos, tol, f, pil) ==
    CBMLeadAt(tapData, startPos, tol, f, pil, pil.pilotStart + pil.count)

IsCBMLead(tapData, startPos, defaultTolerance, pulsesInByte) ==
    CBMLeadFmt(tapData, startPos, defaultTolerance, Ft(CBM_HEAD),
               cbm_pilot(tapData, startPos, Ft(CBM_HEAD).SP, defaultTolerance))

CBMDataMatch(startPos, f, pil, pilotEndPos, rd, eod) ==
    IF pil.count < f.PMin THEN NoMatch
    ELSE IF ~cbm_sync(rd) THEN NoMatch
    ELSE IF rd[9].err THEN NoMatch
    ELSE IF ~(rd[9].val = 0 \/ rd[9].val = 2) THEN NoMatch
    ELSE [ok |-> TRUE, length |-> eod - startPos, blockID |-> rd[9].val,
          psize |-> 0, pilotEndPos |-> pilotEndPos]

CBMDataAt(tapData, startPos, tol, f, pil, pilotEndPos) ==
    CBMDataMatch(startPos, f, pil, pilotEndPos,
        [k \in 0..9 |-> cbm_readbyte(tapData, pilotEndPos + 20 * k, f.SP, f.MP, f.LP, tol)],
        cbm_eod(tapData, pilotEndPos + 20 * 10, f.SP, f.MP, f.LP, tol))

CBMDataFmt(tapData, startPos, tol, f, pil) ==
    CBMDataAt(tapData, startPos, tol, f, pil, pil.pilotStart + pil.count)

IsCBMData(tapData, startPos, defaultTolerance, pulsesInByte) ==
    CBMDataFmt(tapData, startPos, defaultTolerance, Ft(CBM_DATA),
               cbm_pilot(tapData, startPos, Ft(CBM_DATA).SP, defaultTolerance))

(***************************************************************************)
(* internal/audio: reconstruction helpers                                  *)
(***************************************************************************)
\* floor(c * a / b) without leaving the checker's 32-bit integers: with
\* c * (a \div 2) = q * b + r (0 <= r < b), c * a = 2 * (q * b + r) + (a % 2) * c
RECURSIVE MulDivMod(_, _, _)
MulDivMod(c, a, b) ==
    IF a = 0 THEN [q |-> 0, r |-> 0]
    ELSE LET h == MulDivMod(c, a \div 2, b)
             t == 2 * h.r + (a % 2) * (c % b)
         IN  [q |-> 2 * h.q + (a % 2) * (c \div b) + t \div b, r |-> t % b]

\* a variant of cyclesToSamples that rounds to the nearest sample
cyclesToSamplesNearest(cycles, clock, sampleRate) ==
    LET d == MulDivMod(cycles, sampleRate, clock)
    IN  d.q + (IF 2 * d.r >= clock THEN 1 ELSE 0)

\* int(math.Floor(float64(cycles) * sampleRate / clock)); cycles < 2^32 and
\* sampleRate = 44100 keep the product exact in float64, and a non-integral
\* quotient lies at least 1/clock away from an integer, so the float64 floor is
\* the integer floor
cyclesToSamples(cycles, clock, sampleRate) ==
    IF cycles <= 2040 /\ sampleRate <= 1000000
    THEN (cycles * sampleRate) \div clock
    ELSE MulDivMod(cycles, sampleRate, clock).q

\* len(generateWave(waveSamples, 127)) for the pulse byte b (uint32(b) * 8 <= 2040)
PulseLen(b, clock, sampleRate) == cyclesToSamples(b * 8, clock, sampleRate)

\* byte(math.Max(0, math.Min(255, y)))
Clamp(y) == IF y < 0 THEN 0 ELSE IF y > 255 THEN 255 ELSE y

\* the variant whose odd sample is a high one
generateWaveHighOdd(len, amp) ==
    [j \in 1..len |-> IF j - 1 < (len + 1) \div 2 THEN Clamp(amp + 128) ELSE Clamp(128 - amp)]

\* the samples of one pulse: positions 0..len-1 of the code are 1..len here
generateWave(len, amp) ==
    [j \in 1..len |-> IF j - 1 < len \div 2 THEN Clamp(amp + 128) ELSE Clamp(128 - amp)]

_generatePause(len) ==
    [j \in 1..len |-> IF j - 1 < len \div 2 THEN 255 ELSE 1]

\* the PCM length of the loop "for k in lo..hi-1 { pcm = append(pcm, generateWave(...)) }"
RECURSIVE RenderLen(_, _, _, _, _)
RenderLen(tapData, lo, hi, clock, sampleRate) ==
    IF hi <= lo THEN 0
    ELSE IF hi = lo + 1 THEN PulseLen(At(tapData, lo), clock, sampleRate)
    ELSE LET mid == (lo + hi) \div 2
         IN  RenderLen(tapData, lo, mid, clock, sampleRate)
           + RenderLen(tapData, mid, hi, clock, sampleRate)

\* totalCycles of the same loop (uint32 in the code; below 2^31 for every stream
\* shorter than 2^20 bytes)
RECURSIVE RenderCycles(_, _, _)
RenderCycles(tapData, lo, hi) ==
    IF hi <= lo THEN 0
    ELSE IF hi = lo + 1 THEN At(tapData, lo) * 8
    ELSE LET mid == (lo + hi) \div 2
         IN  RenderCycles(tapData, lo, mid) + RenderCycles(tapData, mid, hi)

isLeadTone(tapData, startPos) ==
    LET n == Len(tapData)
        candidateValue == At(tapData, startPos)
        checkLength == Min2(n - startPos, MinLeadToneLength)
        sameValueCount ==
            FirstPos(0, checkLength, LAMBDA j : At(tapData, startPos + j) # candidateValue)
    IN  IF startPos + MinLeadToneLength > n THEN FALSE
        ELSE IF candidateValue = 0 THEN FALSE
        ELSE IF sameValueCount > 0
             THEN IF checkLength = 0 THEN FALSE
                  \* sameValueCount / checkLength >= 0.9 (RequiredConsistency)
                  ELSE sameValueCount * 10 >= 9 * checkLength
                       /\ checkLength >= MinLeadToneLength
             ELSE FALSE

\* a variant of _processPauseBlock that takes the missing duration of a v1
\* pause as the v0 default
_processPauseBlockLenient(tapData, i, version, clock, sampleRate) ==
    IF i + 3 >= Len(tapData)
    THEN [pcm |-> cyclesToSamples(V0PauseCycles, clock, sampleRate),
          bytesRead |-> 1, cycles |-> V0PauseCycles, err |-> FALSE]
    ELSE [pcm |-> 0, bytesRead |-> 4, cycles |-> 0, err |-> FALSE]

\* a variant of _processPauseBlock that reads the duration most significant
\* byte first
_processPauseBlockBigEndian(tapData, i, version, clock, sampleRate) ==
    IF i + 3 >= Len(tapData)
    THEN [pcm |-> 0, bytesRead |-> 1, cycles |-> 0, err |-> version # 0]
    ELSE [pcm |-> 0, bytesRead |-> 4,
          cycles |-> At(tapData, i + 1) * 65536 + At(tapData, i + 2) * 256
                     + At(tapData, i + 3),
          err |-> FALSE]

\* result: [pcm (length), bytesRead, cycles, err]
_processPauseBlock(tapData, i, version, clock, sampleRate) ==
    LET pauseDurationOffset == i + 1
        short == pauseDurationOffset + 2 >= Len(tapData)
        cycles == IF version = 0 THEN V0PauseCycles
                  ELSE IF short THEN 0
                  \* b0 | b1 << 8 | b2 << 16: disjoint bits, no carry, below 2^24
                  ELSE At(tapData, pauseDurationOffset)
                     + At(tapData, pauseDurationOffset + 1) * 256
                     + At(tapData, pauseDurationOffset + 2) * 65536
        bytesRead == IF short THEN 1 ELSE 4
    IN  IF short /\ version # 0
        THEN [pcm |-> 0, bytesRead |-> 1, cycles |-> 0, err |-> TRUE]
        ELSE [pcm |-> cyclesToSamples(cycles, clock, sampleRate),
              bytesRead |-> bytesRead, cycles |-> cycles, err |-> FALSE]

\* result: [pcm (length), bytesRead, totalCycles, blockType, psize, blockID, pilotEndPos, err]
_recognized(tapData, i, clock, sampleRate, r, kind, stop) ==
    [pcm |-> RenderLen(tapData, i, stop, clock, sampleRate),
     bytesRead |-> r.length,
     totalCycles |-> RenderCycles(tapData, i, stop),
     blockType |-> kind, psize |-> r.psize, blockID |-> r.blockID,
     pilotEndPos |-> r.pilotEndPos, err |-> FALSE]

\* a variant of _generic for which a run that is no lead tone is an error
_genericLeadOnly(tapData, i, clock, sampleRate, stop0) ==
    [pcm |-> RenderLen(tapData, i, stop0, clock, sampleRate),
     bytesRead |-> stop0 - i,
     totalCycles |-> RenderCycles(tapData, i, stop0),
     blockType |-> "lead",
     psize |-> 0, blockID |-> 0, pilotEndPos |-> 0,
     err |-> ~isLeadTone(tapData, i)]

\* the generic walk over consecutive non-zero bytes, leaving at stop0
_generic(tapData, i, clock, sampleRate, stop0) ==
    [pcm |-> RenderLen(tapData, i, stop0, clock, sampleRate),
     bytesRead |-> stop0 - i,
     totalCycles |-> RenderCycles(tapData, i, stop0),
     blockType |-> IF isLeadTone(tapData, i) THEN "lead" ELSE "data",
     psize |-> 0, blockID |-> 0, pilotEndPos |-> 0,
     err |-> (stop0 - i = 0)]

\* the variant that tries the CBM data recognizer before the CBM head one
_dispatchDataFirst(tapData, i, clock, sampleRate, tt, ch, cd) ==
    IF tt.ok
    THEN _recognized(tapData, i, clock, sampleRate, tt, "tt_head",
                     Min2(i + tt.length, Len(tapData)))
    ELSE IF cd.ok
    THEN _recognized(tapData, i, clock, sampleRate, cd, "cbm_data",
                     Min2(i + cd.length, Len(tapData)))
    ELSE IF ch.ok
    THEN _recognized(tapData, i, clock, sampleRate, ch, "cbm_head",
                     Min2(i + ch.length, Len(tapData)))
    ELSE _generic(tapData, i, clock, sampleRate,
                  FirstPos(i, Len(tapData), LAMBDA q : At(tapData, q) = 0))

_dispatch(tapData, i, clock, sampleRate, tt, ch, cd) ==
    IF tt.ok
    THEN _recognized(tapData, i, clock, sampleRate, tt, "tt_head",
                     Min2(i + tt.length, Len(tapData)))
    ELSE IF ch.ok
    THEN _recognized(tapData, i, clock, sampleRate, ch, "cbm_head",
                     Min2(i + ch.length, Len(tapData)))
    ELSE IF cd.ok
    THEN _recognized(tapData, i, clock, sampleRate, cd, "cbm_data",
                     Min2(i + cd.length, Len(tapData)))
    ELSE _generic(tapData, i, clock, sampleRate,
                  FirstPos(i, Len(tapData), LAMBDA q : At(tapData, q) = 0))

\* result: [pcm (length), bytesRead, totalCycles, blockType, psize, blockID,
\* pilotEndPos, err]
_processDataLeadBlock(tapData, i, clock, sampleRate) ==
    _dispatch(tapData, i, clock, sampleRate,
              IsTurbotape250Lead(tapData, i, DefaultTolerance, PULSES_IN_BYTE),
              IsCBMLead(tapData, i, DefaultTolerance, PULSES_IN_CBM_BYTE),
              IsCBMData(tapData, i, DefaultTolerance, PULSES_IN_CBM_BYTE))

\* a pending Turbotape span of blockBytesRead bytes, rendered up to the end of
\* the stream: [pcm (length), totalCycles]
_pendingSpan(tapData, i, blockBytesRead, clock, sampleRate) ==
    LET stop == Min2(i + blockBytesRead, Len(tapData))
    IN  [pcm |-> RenderLen(tapData, i, stop, clock, sampleRate),
         totalCycles |-> RenderCycles(tapData, i, stop)]

(***************************************************************************)
(* internal/tap: ReadTAP.  Only the first 20 bytes and the length of the   *)
(* file decide the result.  A length is kept as three base-65536 digits    *)
(* <<d2, d1, d0>> (d2 * 2^32 + d1 * 2^16 + d0) and a uint32 as two         *)
(* 16-bit halves, so that the 32-bit conversions keep their width.         *)
(***************************************************************************)
Half == 256 * 256

SizeOf(n) == <<0, n \div Half, n % Half>>

\* uint32(len(data) - TapHeaderSize) as <<high half, low half>>, for len >= 20
ActualDataSize(size) ==
    LET borrow == IF size[3] < TapHeaderSize THEN 1 ELSE 0
    IN  <<(size[2] - borrow + Half) % Half, (size[3] - TapHeaderSize + Half) % Half>>

\* binary.LittleEndian.Uint32(data[16:20]) as <<high half, low half>>
DeclaredDataSize(head) == <<head[20] * 256 + head[19], head[18] * 256 + head[17]>>

\* TRUE iff ReadTAP returns the data (head: the first min(20, len) bytes)
ReadTAPCheck(readable, head, size) ==
    IF ~readable THEN FALSE
    ELSE IF size[1] = 0 /\ size[2] = 0 /\ size[3] < TapHeaderSize THEN FALSE
    ELSE IF SubSeq(head, 1, 12) # TapSignatureC64 THEN FALSE
    ELSE IF head[13] > TapMaxVersionSupport THEN FALSE
    ELSE ActualDataSize(size) = DeclaredDataSize(head)

ReadTAP(file) ==
    ReadTAPCheck(file.readable,
                 SubSeq(file.data, 1, Min2(TapHeaderSize, Len(file.data))),
                 SizeOf(Len(file.data)))

(***************************************************************************)
(* internal/idx: ReadIDX.  A line is a sequence of one-character strings.  *)
(***************************************************************************)
HexDigits == <<"0", "1", "2", "3", "4", "5", "6", "7", "8", "9",
               "a", "b", "c", "d", "e", "f">>
HexUpper == <<"0", "1", "2", "3", "4", "5", "6", "7", "8", "9",
              "A", "B", "C", "D", "E", "F">>

\* the value of a base-16 digit, -1 for any other character
HexVal(c) ==
    IF \E k \in 1..16 : HexDigits[k] = c THEN (CHOOSE k \in 1..16 : HexDigits[k] = c) - 1
    ELSE IF \E k \in 1..16 : HexUpper[k] = c THEN (CHOOSE k \in 1..16 : HexUpper[k] = c) - 1
    ELSE -1

\* strings.TrimSpace, for the one white-space character of the alphabet
TrimSpace(line) ==
    LET n == Len(line)
        a == FirstPos(1, n + 1, LAMBDA q : line[q] # " ")
        b == IF a > n THEN 0 ELSE CHOOSE q \in a..n : line[q] # " " /\ \A r \in (q + 1)..n : line[r] = " "
    IN  IF a > n THEN <<>> ELSE SubSeq(line, a, b)

\* the digits ds (all valid) as a number
RECURSIVE HexNumber(_)
HexNumber(ds) ==
    IF ds = <<>> THEN 0 ELSE HexNumber(SubSeq(ds, 1, Len(ds) - 1)) * 16 + HexVal(ds[Len(ds)])

\* strconv.ParseInt(str, 16, 32): [ok, val]
ParseHex32(str) ==
    LET signed == str # <<>> /\ (str[1] = "+" \/ str[1] = "-")
        neg == signed /\ str[1] = "-"
        ds == IF signed THEN Tail(str) ELSE str
        nz == FirstPos(1, Len(ds) + 1, LAMBDA q : ds[q] # "0")
        sig == SubSeq(ds, nz, Len(ds))
        fail == [ok |-> FALSE, val |-> 0]
    IN  IF ds = <<>> THEN fail
        ELSE IF \E q \in 1..Len(ds) : HexVal(ds[q]) = -1 THEN fail
        ELSE IF Len(sig) > 8 THEN fail
        ELSE IF Len(sig) = 8 /\ HexVal(sig[1]) >= 8
             THEN IF neg /\ HexVal(sig[1]) = 8 /\ \A q \in 2..8 : sig[q] = "0"
                  THEN [ok |-> TRUE, val |-> -2147483647 - 1]
                  ELSE fail
        ELSE [ok |-> TRUE, val |-> IF neg THEN -HexNumber(sig) ELSE HexNumber(sig)]

\* one line of the file: [kind \in {"skip", "error", "entry"}, Position, Name]
ParseIDXLine(raw) ==
    LET line == TrimSpace(raw)
        n == Len(line)
        sp == FirstPos(1, n + 1, LAMBDA q : line[q] = " ")
        part0 == SubSeq(line, 1, sp - 1)
        part1 == SubSeq(line, sp + 1, n)
        positionStr == IF Len(part0) >= 2 /\ part0[1] = "0" /\ part0[2] = "x"
                       THEN SubSeq(part0, 3, Len(part0)) ELSE part0
        position == ParseHex32(positionStr)
    IN  IF line = <<>> \/ line[1] = ";" THEN [kind |-> "skip", Position |-> 0, Name |-> <<>>]
        ELSE IF sp > n THEN [kind |-> "error", Position |-> 0, Name |-> <<>>]
        ELSE IF ~position.ok THEN [kind |-> "error", Position |-> 0, Name |-> <<>>]
        ELSE [kind |-> "entry", Position |-> position.val, Name |-> TrimSpace(part1)]

\* [err, entries]; file: [readable, lines]
ReadIDX(file) ==
    LET parsed == [k \in 1..Len(file.lines) |-> ParseIDXLine(file.lines[k])]
        kept == SelectSeq(parsed, LAMBDA e : e.kind = "entry")
    IN  IF ~file.readable THEN [err |-> TRUE, entries |-> <<>>]
        ELSE IF \E k \in 1..Len(parsed) : parsed[k].kind = "error"
             THEN [err |-> TRUE, entries |-> <<>>]
        ELSE [err |-> FALSE,
              entries |-> [k \in 1..Len(kept) |->
                             [Position |-> kept[k].Position, Name |-> kept[k].Name]]]

(***************************************************************************)
(* internal/audio: mergeIDXData                                            *)
(***************************************************************************)
\* sort.Slice with the ordering less(a, b): the stable outcome, which is the only
\* outcome when no two elements compare equal
SortSlice(seq, less(_, _)) ==
    LET n == Len(seq)
        before(j, k) == less(seq[j], seq[k]) \/ (~less(seq[k], seq[j]) /\ j < k)
        rank(k) == 1 + Cardinality({j \in 1..n : j # k /\ before(j, k)})
    IN  [r \in 1..n |-> seq[CHOOSE k \in 1..n : rank(k) = r]]

\* every outcome sort.Slice may produce: the orderings of seq with no inversion
SortOutcomes(seq, less(_, _)) ==
    LET n == Len(seq)
        perms == {p \in [1..n -> 1..n] : \A a, b \in 1..n : a # b => p[a] # p[b]}
    IN  {[r \in 1..n |-> seq[p[r]]] :
            p \in {q \in perms : \A a, b \in 1..n : a < b => ~less(seq[q[b]], seq[q[a]])}}

\* the variant that takes a segment of any kind
IsTaggableAny(t) == TRUE

IsTaggable(t) == t = "data" \/ t = "lead" \/ t = "tt_head" \/ t = "cbm_head"

\* a variant of _bestMatch that takes the first segment of the window
_bestMatchFirst(indexData, k, targetPos) ==
    LET n == Len(indexData)
        k1 == FirstPos(k, n + 1,
                       LAMBDA q : ~(indexData[q].EndPosition < targetPos - MaxOffset))
        cand == {q \in k1..n :
                    /\ IsTaggable(indexData[q].Type)
                    /\ abs(targetPos - indexData[q].StartPosition) <= MaxOffset}
    IN  [k |-> k1, best |-> IF cand = {} THEN 0 ELSE CHOOSE q \in cand : \A r \in cand : q <= r]

\* a variant of _bestMatch that leaves a segment that has a tag alone
_bestMatchUntagged(indexData, k, targetPos) ==
    LET n == Len(indexData)
        k1 == FirstPos(k, n + 1,
                       LAMBDA q : ~(indexData[q].EndPosition < targetPos - MaxOffset))
        dist(q) == abs(targetPos - indexData[q].StartPosition)
        cand == {q \in k1..n :
                    /\ IsTaggable(indexData[q].Type)
                    /\ indexData[q].IDXTag = <<>>
                    /\ dist(q) <= MaxOffset}
    IN  [k |-> k1,
         best |-> IF cand = {} THEN 0
                  ELSE CHOOSE q \in cand :
                          \A r \in cand : dist(q) < dist(r) \/ (dist(q) = dist(r) /\ q <= r)]

\* the index (1-based) the entry at targetPos selects in the sorted indexData,
\* from the pointer k on: [k (advanced), best (0 for none)]
_bestMatch(indexData, k, targetPos) ==
    LET n == Len(indexData)
        minPos == targetPos - MaxOffset
        maxPos == targetPos + MaxOffset
        k1 == FirstPos(k, n + 1, LAMBDA q : ~(indexData[q].EndPosition < minPos))
        stopK == FirstPos(k1, n + 1, LAMBDA q : indexData[q].StartPosition > maxPos)
        dist(q) == abs(targetPos - indexData[q].StartPosition)
        cand == {q \in k1..(stopK - 1) :
                    /\ IsTaggable(indexData[q].Type)
                    /\ indexData[q].StartPosition <= maxPos
                    /\ indexData[q].EndPosition >= minPos
                    /\ dist(q) <= MaxOffset}
        best == IF cand = {} THEN 0
                ELSE CHOOSE q \in cand :
                        \A r \in cand : dist(q) < dist(r) \/ (dist(q) = dist(r) /\ q <= r)
    IN  [k |-> k1, best |-> best]

\* the loop over the sorted IDX entries, from entry j and pointer k
RECURSIVE _mergeLoop(_, _, _, _)
_mergeLoop(indexData, idxEntries, j, k) ==
    IF j > Len(idxEntries) THEN indexData
    ELSE LET m == _bestMatch(indexData, k, idxEntries[j].Position)
             tagged == IF m.best = 0 THEN indexData
                       ELSE [indexData EXCEPT ![m.best].IDXTag = idxEntries[j].Name]
         IN  _mergeLoop(tagged, idxEntries, j + 1, m.k)

LessByStart(a, b) == a.StartPosition < b.StartPosition

LessByPosition(a, b) == a.Position < b.Position

\* (StartPosition, EndPosition, StartTime); StartTime = StartSample / sampleRate
LessCanonical(a, b) ==
    IF a.StartPosition # b.StartPosition THEN a.StartPosition < b.StartPosition
    ELSE IF a.EndPosition # b.EndPosition THEN a.EndPosition < b.EndPosition
    ELSE a.StartSample < b.StartSample

\* mergeIDXData once idxEntries has been sorted into sortedEntries
mergeIDXData(indexData, sortedEntries) ==
    IF Len(sortedEntries) = 0 \/ Len(indexData) = 0 THEN indexData
    ELSE SortSlice(_mergeLoop(SortSlice(indexData, LessByStart), sortedEntries, 1, 1),
                   LessCanonical)

(***************************************************************************)
(* Input streams: what a tape writer puts on the tape.  The encodings use  *)
(* the ideal pulse widths of the format registry.                          *)
(***************************************************************************)
Rep(v, n) == [k \in 1..n |-> v]

\* bytes as Turbotape pulses: 8 per byte, MSB first, 0 = 0x1A, 1 = 0x28
TTBytes(bs) ==
    [q \in 1..(8 * Len(bs)) |->
        LET b == bs[((q - 1) \div 8) + 1]
            k == (q - 1) % 8
        IN  IF (b \div (2 ^ (7 - k))) % 2 = 1 THEN 40 ELSE 26]

\* bytes as CBM pulses: (L,M), eight LSB-first bit pairs, odd-parity pair
CBMBytes(bs) ==
    [q \in 1..(20 * Len(bs)) |->
        LET b == bs[((q - 1) \div 20) + 1]
            j == (q - 1) % 20
            bitAt(k) == (b \div (2 ^ k)) % 2
            ones == bitAt(0) + bitAt(1) + bitAt(2) + bitAt(3)
                  + bitAt(4) + bitAt(5) + bitAt(6) + bitAt(7)
            v == IF j >= 18 THEN (1 + ones) % 2 ELSE bitAt((j - 2) \div 2)
        IN  IF j = 0 THEN 86
            ELSE IF j = 1 THEN 66
            ELSE IF (j % 2 = 0) = (v = 0) THEN 48 ELSE 66]

LE32(v) == <<v % 256, (v \div 256) % 256, (v \div 65536) % 256, (v \div 16777216) % 256>>

\* the 20-byte TAP header
TapHeader(sig, version, declared) == sig \o <<version, 0, 0, 0>> \o LE32(declared)

\* a Turbotape head: pilot, countdown, blockId, addresses, name, padding, checksum
TTHead(pilotLen, blockId, startAddr, endAddr) ==
    TTBytes(Rep(2, pilotLen) \o <<9, 8, 7, 6, 5, 4, 3, 2, 1>> \o <<blockId>>
            \o <<startAddr % 256, startAddr \div 256, endAddr % 256, endAddr \div 256>>
            \o Rep(65, 16) \o Rep(32, 3) \o <<90>>)

\* a CBM block: pilot, sync countdown, file type, the bytes given, end-of-data
CBMBlock(pilotLen, fileType, body) ==
    Rep(48, pilotLen)
    \o CBMBytes(<<137, 136, 135, 134, 133, 132, 131, 130, 129>> \o <<fileType>> \o body)
    \o <<86, 48>>

\* payload chunks, by name
\* the shortest run of one value that makes 25000 bytes a lead tone:
\* RequiredConsistency (0.9) of MinLeadToneLength
LeadRun == (9 * MinLeadToneLength) \div 10

Chunk(name) ==
    CASE name = "d" -> <<112, 80>>
      [] name = "s" -> <<48, 50, 48>>
      [] name = "z" -> <<0>>
      [] name = "o" -> <<1>>
      [] name = "p" -> <<0, 16, 0, 0>>
      [] name = "P" -> <<0, 64, 66, 15>>
      [] name = "T1" -> TTHead(50, 1, 4096, 4096)
      [] name = "T3" -> TTHead(50, 3, 4096, 4096)
      [] name = "T2" -> TTHead(50, 2, 4096, 4097)
      [] name = "Tn" -> TTHead(50, 2, 4096, 4095)
      [] name = "Tb" -> TTBytes(Rep(2, 50) \o <<9, 8, 6, 5>>)
      [] name = "F" -> Rep(26, 8) \o <<0, 0, 7, 0>> \o Rep(40, TrailerSize - 4)
      [] name = "CH" -> CBMBlock(50, 1, <<0, 16, 0, 32, 7>>)
      [] name = "CD" -> CBMBlock(50, 2, <<7>>)
      [] name = "L" -> Rep(48, MinLeadToneLength)
      [] name = "Lx" -> <<48, 49>> \o Rep(48, MinLeadToneLength - 2)
      [] name = "Lt" -> Rep(48, LeadRun) \o Rep(49, MinLeadToneLength - LeadRun)
      [] name = "Lu" -> Rep(48, LeadRun - 1) \o Rep(49, MinLeadToneLength - LeadRun + 1)
      [] name = "Ls" -> Rep(48, MinLeadToneLength - 1)
      [] OTHER -> <<>>

RECURSIVE Concat(_)
Concat(ss) == IF ss = <<>> THEN <<>> ELSE Head(ss) \o Concat(Tail(ss))

TapFile(version, names) ==
    LET payload == Concat([k \in 1..Len(names) |-> Chunk(names[k])])
    IN  [readable |-> TRUE,
         data |-> TapHeader(TapSignatureC64, version, Len(payload)) \o payload]

(***************************************************************************)
(* Bounds of the input space                                               *)
(***************************************************************************)
MaxChunks == 2
MaxIdxLines == 2

ChunkNames == {"d", "s", "z", "p", "P", "T1", "T3", "Tn", "F", "CH", "CD"}

\* the lines an IDX sidecar is made of
IdxLines ==
    { <<"1", "4", " ", "A">>,
      <<"0", "x", "2", "A", "0", " ", " ", "B", " ">>,
      <<"0", " ", "C">>,
      <<";", "1", "4">>,
      <<" ">>,
      <<"1", "4">>,
      <<"G", "1", " ", "A">>,
      <<"8", "0", "0", "0", "0", "0", "0", "0", " ", "A">> }

NoIdx == [stat |-> "absent", readable |-> FALSE, lines |-> <<>>]

IdxFiles ==
    {NoIdx,
     [stat |-> "error", readable |-> FALSE, lines |-> <<>>],
     [stat |-> "present", readable |-> FALSE, lines |-> <<>>]}
    \cup {[stat |-> "present", readable |-> TRUE, lines |-> ls] :
            ls \in UNION {[1..n -> IdxLines] : n \in 0..MaxIdxLines}}

\* files ReadTAP rejects
BadTapFiles ==
    {[readable |-> FALSE, data |-> TapFile(1, <<"d">>).data],
     [readable |-> TRUE, data |-> <<67, 54, 52>>],
     [readable |-> TRUE, data |-> TapHeader(TapSignatureC64, 2, 2) \o <<112, 80>>],
     [readable |-> TRUE, data |-> TapHeader(TapSignatureC64, 1, 3) \o <<112, 80>>],
     [readable |-> TRUE, data |-> TapHeader([TapSignatureC64 EXCEPT ![12] = 88], 1, 2) \o <<112, 80>>]}

\* longer tapes.  The loop walks the 20 header bytes too and its pauses take
\* the first payload bytes with them (two of them when the payload has between
\* 257 and 65535 bytes and no zero among the two low bytes of its size), so a
\* block is met at its first byte when "d" stands in front of it
Tapes ==
    { <<"d", "T1", "F">>, <<"d", "T1", "F", "d">>, <<"d", "T1", "F", "T1">>,
      <<"d", "T1", "F", "p", "d">>, <<"d", "T1", "d">>, <<"d", "T1", "F", "T1", "F">>,
      <<"d", "Tn", "d">>, <<"d", "T3", "d">>, <<"d", "T1", "T1">>,
      <<"d", "T2", "F", "p", "F">>, <<"d", "Tb", "d">>,
      <<"d", "CH", "p", "CD">>, <<"d", "CH", "CD">>, <<"d", "CD", "z">>,
      <<"d", "L">>, <<"d", "L", "P", "d">>, <<"d", "P", "o", "p", "d">>,
      <<"d", "P", "L">>, <<"d", "P", "Lx">>, <<"d", "P", "Lt">>, <<"d", "P", "Lu">>,
      <<"d", "P", "Ls">> }

\* the chunks without a recognizable block: the two TAP versions differ in
\* their pauses only
LightNames == {"d", "s", "z", "p", "P"}

\* the runs explored: under the CLI at PAL without a sidecar, every chunk
\* sequence as TAP v1, every sequence of light chunks as TAP v0 and every longer
\* tape as both; every sidecar with both entry points and both clocks on short
\* tapes; the rejected files with both entry points
Scenarios ==
    {[entry |-> "main", clock |-> ClockPAL, tapFile |-> TapFile(1, names), idxFile |-> NoIdx] :
        names \in UNION {[1..n -> ChunkNames] : n \in 0..MaxChunks}}
    \cup
    {[entry |-> "main", clock |-> ClockPAL, tapFile |-> TapFile(0, names), idxFile |-> NoIdx] :
        names \in UNION {[1..n -> LightNames] : n \in 0..MaxChunks}}
    \cup
    {[entry |-> "main", clock |-> ClockPAL, tapFile |-> TapFile(v, names), idxFile |-> NoIdx] :
        v \in {0, 1}, names \in Tapes}
    \cup
    {[entry |-> e, clock |-> c, tapFile |-> TapFile(1, names), idxFile |-> x] :
        e \in {"main", "mobile"}, c \in {ClockPAL, ClockNTSC},
        names \in {<<"d">>, <<"p">>, <<"d", "p", "d">>}, x \in IdxFiles}
    \cup
    {[entry |-> e, clock |-> ClockPAL, tapFile |-> f, idxFile |-> NoIdx] :
        e \in {"main", "mobile"}, f \in BadTapFiles}

(***************************************************************************)
(* State                                                                   *)
(***************************************************************************)
VARIABLES
    entry,               \* "main" (cmd/main.go) or "mobile" (ProcessTAP2Pack)
    clock,               \* the selected clock frequency
    tapFile,             \* the .tap file on disk: [readable, data]
    idxFile,             \* the .idx sidecar: [stat, readable, lines]
    pc,                  \* position of the run
    tapData,             \* ReadTAP's result
    version,             \* tapData[12]
    idxEntries,          \* the entries handed to ProcessTAPData
    idxFailed,           \* ReadIDX returned an error
    i,                   \* ProcessTAPData: loop index
    currentSample,
    currentPosition,
    expectedDataSize,
    expectedTrailerSize,
    pcmSamples,          \* len(pcmSamples)
    indexData,
    blockLog,            \* per emitted segment, in producer order: the block
                         \* processor's results that IndexEntry does not keep
    ret,                 \* ProcessTAPData's results: [done, pcm, index, err]
    jobErr,              \* the entry point's error ("" for none)
    rtFile,              \* ReadTAP on its own: the file [readable, head, size]
    rtResult,            \* and what it returned: "none", "data" or "error"
    pauseIn,             \* _processPauseBlock on its own: [tapData, i, cycles]
    pauseOut,            \* and its results
    waveIn,              \* generateWave / _generatePause on their own: [kind, lens]
    waveOut,             \* and the PCM they gave: [done, pcm]
    callIn,              \* another function called on its own: [fn, its arguments]
    callOut,             \* and its results: [done, ...]
    archive              \* the .cpk written: SplitAndPackageBlocks' results

vars == <<entry, clock, tapFile, idxFile, pc, tapData, version, idxEntries, idxFailed,
          i, currentSample, currentPosition, expectedDataSize, expectedTrailerSize,
          pcmSamples, indexData, blockLog, ret, jobErr, rtFile, rtResult, pauseIn, pauseOut,
          waveIn, waveOut, callIn, callOut, archive>>

given == <<entry, clock, tapFile, idxFile, rtFile, rtResult, pauseIn, pauseOut,
           waveIn, waveOut, callIn, callOut>>
inputs == <<given, archive>>
locals == <<i, currentSample, currentPosition, expectedDataSize, expectedTrailerSize,
            pcmSamples, indexData, blockLog>>

NoRet == [done |-> FALSE, pcm |-> 0, index |-> <<>>, err |-> FALSE]
NoRtFile == [readable |-> FALSE, head |-> <<>>, size |-> <<0, 0, 0>>]
NoPause == [tapData |-> <<>>, i |-> 0, cycles |-> 0]
NoPauseOut == [pcm |-> 0, bytesRead |-> 0, cycles |-> 0, err |-> FALSE]
NoWave == [kind |-> "none", lens |-> <<>>]
NoWaveOut == [done |-> FALSE, pcm |-> <<>>]
NoCall == [fn |-> "none"]
NoCallOut == [done |-> FALSE]
NoArchive == [done |-> FALSE]

\* the state in which ProcessTAPData has not been entered
Idle ==
    /\ pc = "start"
    /\ tapData = <<>>
    /\ version = 0
    /\ idxEntries = <<>>
    /\ idxFailed = FALSE
    /\ i = 0
    /\ currentSample = 0
    /\ currentPosition = 0
    /\ expectedDataSize = 0
    /\ expectedTrailerSize = 0
    /\ pcmSamples = 0
    /\ indexData = <<>>
    /\ blockLog = <<>>
    /\ ret = NoRet
    /\ jobErr = ""

Init ==
    /\ \E sc \in Scenarios :
          /\ entry = sc.entry
          /\ clock = sc.clock
          /\ tapFile = sc.tapFile
          /\ idxFile = sc.idxFile
    /\ Idle
    /\ rtFile = NoRtFile
    /\ rtResult = "none"
    /\ pauseIn = NoPause
    /\ pauseOut = NoPauseOut
    /\ waveIn = NoWave
    /\ waveOut = NoWaveOut
    /\ callIn = NoCall
    /\ callOut = NoCallOut /\ archive = NoArchive

(***************************************************************************)
(* Entry points, up to the call of ProcessTAPData                          *)
(***************************************************************************)
\* tap.ReadTAP and the version byte
ReadTapFile ==
    /\ pc = "start"
    /\ IF ReadTAP(tapFile)
       THEN /\ tapData' = tapFile.data
            /\ version' = At(tapFile.data, 12)
            /\ pc' = "idx"
            /\ jobErr' = jobErr
       ELSE /\ pc' = "exit"
            /\ jobErr' = "tap"
            /\ UNCHANGED <<tapData, version>>
    /\ UNCHANGED <<inputs, locals, idxEntries, idxFailed, ret>>

\* the optional sidecar, then the first lines of ProcessTAPData
ReadIdxFile ==
    /\ pc = "idx"
    /\ \E r \in {ReadIDX(idxFile)} : \E failed \in {idxFile.stat = "present" /\ r.err} :
           /\ idxFailed' = failed
           /\ idxEntries' = IF idxFile.stat = "present" /\ ~r.err THEN r.entries ELSE <<>>
           /\ IF failed /\ entry = "mobile"
              THEN pc' = "exit" /\ jobErr' = "idx" /\ ret' = ret
              ELSE IF Len(tapData) < TapHeaderSize
              THEN pc' = "returned" /\ jobErr' = jobErr
                   /\ ret' = [done |-> TRUE, pcm |-> 0, index |-> <<>>, err |-> TRUE]
              ELSE pc' = "loop" /\ jobErr' = jobErr /\ ret' = ret
    /\ UNCHANGED <<inputs, locals, tapData, version>>

(***************************************************************************)
(* ProcessTAPData: one action per branch of the main loop                  *)
(***************************************************************************)
\* a variant of NewEntry whose end position is the next block's start
NewEntryEndExclusive(blk) ==
    [StartSample |-> currentSample,
     EndSample |-> currentSample + blk.pcm - 1,
     Type |-> blk.blockType,
     StartPosition |-> currentPosition,
     EndPosition |-> currentPosition + blk.bytesRead,
     IDXTag |-> <<>>,
     BlockID |-> blk.blockID,
     PilotEndPos |-> blk.pilotEndPos]

\* the IndexEntry appended for the block blk (currentSample and currentPosition
\* are read before they are advanced)
NewEntry(blk) ==
    [StartSample |-> currentSample,
     EndSample |-> currentSample + blk.pcm - 1,
     Type |-> blk.blockType,
     StartPosition |-> currentPosition,
     EndPosition |-> currentPosition + blk.bytesRead - 1,
     IDXTag |-> <<>>,
     BlockID |-> blk.blockID,
     PilotEndPos |-> blk.pilotEndPos]

\* lines 140-175 for the block blk, with the pending counters left at eds, ets
Commit(blk, eds, ets) ==
    /\ expectedDataSize' = eds
    /\ expectedTrailerSize' = ets
    /\ IF blk.err
       THEN /\ pc' = "returned"
            /\ ret' = [done |-> TRUE, pcm |-> 0, index |-> <<>>, err |-> TRUE]
            /\ UNCHANGED <<i, currentSample, currentPosition, pcmSamples, indexData, blockLog>>
       ELSE IF blk.bytesRead <= 0
       THEN /\ pc' = "break"
            /\ UNCHANGED <<ret, i, currentSample, currentPosition, pcmSamples, indexData,
                           blockLog>>
       \* tapData[sectionStartPosition:currentPosition] panics beyond cap(tapData),
       \* which is at least len(tapData) and otherwise up to the allocator
       ELSE \E fits \in IF currentPosition + blk.bytesRead > Len(tapData)
                        THEN BOOLEAN ELSE {TRUE} :
              IF ~fits
              THEN /\ pc' = "panic"
                   /\ pcmSamples' = pcmSamples + blk.pcm
                   /\ currentSample' = currentSample + blk.pcm
                   /\ currentPosition' = currentPosition + blk.bytesRead
                   /\ UNCHANGED <<ret, i, indexData, blockLog>>
              ELSE /\ pc' = "loop"
                   /\ pcmSamples' = pcmSamples + blk.pcm
                   /\ currentSample' = currentSample + blk.pcm
                   /\ currentPosition' = currentPosition + blk.bytesRead
                   /\ indexData' = Append(indexData, NewEntry(blk))
                   /\ blockLog' = Append(blockLog,
                         [type |-> blk.blockType, at |-> i, bytesRead |-> blk.bytesRead,
                          rendered |-> blk.rendered, pcm |-> blk.pcm,
                          totalCycles |-> blk.totalCycles, psize |-> blk.psize])
                   /\ i' = i + blk.bytesRead
                   /\ ret' = ret
    /\ UNCHANGED <<inputs, tapData, version, idxEntries, idxFailed, jobErr>>

PendingBlock(kind, blockBytesRead) ==
    LET r == _pendingSpan(tapData, i, blockBytesRead, clock, SampleRate)
    IN  [pcm |-> r.pcm, bytesRead |-> blockBytesRead, totalCycles |-> r.totalCycles,
         blockType |-> kind, psize |-> 0, blockID |-> 0, pilotEndPos |-> 0,
         err |-> FALSE, rendered |-> Min2(blockBytesRead, Len(tapData) - i)]

\* a variant of TTDataBlock that takes payloadSize bytes, not payloadSize pulses
\* of eight
TTDataBlockBytes ==
    /\ pc = "loop" /\ i < Len(tapData)
    /\ expectedDataSize > 0
    /\ \E blk \in {PendingBlock("tt_data", expectedDataSize)} :
          Commit(blk, 0, TrailerSize)

\* a variant of TTDataBlock that leaves expectedDataSize as it is
TTDataBlockKeepsSize ==
    /\ pc = "loop" /\ i < Len(tapData)
    /\ expectedDataSize > 0
    /\ \E blk \in {PendingBlock("tt_data", expectedDataSize * PULSES_IN_BYTE)} :
          Commit(blk, expectedDataSize, TrailerSize)

TTDataBlock ==
    /\ pc = "loop" /\ i < Len(tapData)
    /\ expectedDataSize > 0
    /\ \E blk \in {PendingBlock("tt_data", expectedDataSize * PULSES_IN_BYTE)} :
          Commit(blk, 0, TrailerSize)

\* a variant of TTTrailerBlock that lets the dispatcher decide at a zero byte
TTTrailerBlockUnlessZero ==
    /\ pc = "loop" /\ i < Len(tapData)
    /\ ~(expectedDataSize > 0) /\ expectedTrailerSize > 0
    /\ \E blk \in {IF At(tapData, i) = 0
                    THEN PendingBlock("pause", 1)
                    ELSE PendingBlock("tt_trailer", expectedTrailerSize)} :
          Commit(blk, expectedDataSize, 0)

\* a variant of TTTrailerBlock that leaves expectedTrailerSize as it is
TTTrailerBlockKeepsSize ==
    /\ pc = "loop" /\ i < Len(tapData)
    /\ ~(expectedDataSize > 0) /\ expectedTrailerSize > 0
    /\ \E blk \in {PendingBlock("tt_trailer", expectedTrailerSize)} :
          Commit(blk, expectedDataSize, expectedTrailerSize)

TTTrailerBlock ==
    /\ pc = "loop" /\ i < Len(tapData)
    /\ ~(expectedDataSize > 0) /\ expectedTrailerSize > 0
    /\ \E blk \in {PendingBlock("tt_trailer", expectedTrailerSize)} :
          Commit(blk, expectedDataSize, 0)

PauseBlock ==
    /\ pc = "loop" /\ i < Len(tapData)
    /\ ~(expectedDataSize > 0) /\ ~(expectedTrailerSize > 0)
    /\ At(tapData, i) = 0
    /\ \E r \in {_processPauseBlock(tapData, i, version, clock, SampleRate)} :
          Commit([pcm |-> r.pcm, bytesRead |-> r.bytesRead, totalCycles |-> r.cycles,
                  blockType |-> "pause", psize |-> 0, blockID |-> 0, pilotEndPos |-> 0,
                  err |-> r.err, rendered |-> r.bytesRead],
                 expectedDataSize, expectedTrailerSize)

DataLeadBlock ==
    /\ pc = "loop" /\ i < Len(tapData)
    /\ ~(expectedDataSize > 0) /\ ~(expectedTrailerSize > 0)
    /\ At(tapData, i) # 0
    /\ \E r \in {_processDataLeadBlock(tapData, i, clock, SampleRate)} :
          Commit([pcm |-> r.pcm, bytesRead |-> r.bytesRead, totalCycles |-> r.totalCycles,
                  blockType |-> r.blockType, psize |-> r.psize, blockID |-> r.blockID,
                  pilotEndPos |-> r.pilotEndPos, err |-> r.err,
                  rendered |-> Min2(r.bytesRead, Len(tapData) - i)],
                 IF r.blockType = "tt_head" THEN r.psize ELSE expectedDataSize,
                 expectedTrailerSize)

\* the loop is left: merge the IDX entries and return
MergeAndReturn ==
    /\ pc = "break" \/ (pc = "loop" /\ ~(i < Len(tapData)))
    /\ \E sortedEntries \in SortOutcomes(idxEntries, LessByPosition) :
          \E merged \in {mergeIDXData(indexData, sortedEntries)} :
              /\ indexData' = merged
              /\ ret' = [done |-> TRUE, pcm |-> pcmSamples, index |-> merged, err |-> FALSE]
    /\ pc' = "returned"
    /\ UNCHANGED <<inputs, tapData, version, idxEntries, idxFailed, jobErr, i, currentSample,
                   currentPosition, expectedDataSize, expectedTrailerSize, pcmSamples,
                   blockLog>>

(***************************************************************************)
(* The block grouper and the CSV of the blocks (internal/export).  An      *)
(* entry is pointed at by its index in the list; times are kept as sample  *)
(* counts (time * sampleRate)                                              *)
(***************************************************************************)
isLeadType(blockType) == blockType \in {"lead", "tt_head", "cbm_head"}

\* the variant that knows the Turbotape data only
isDataTypeTurbo(blockType) == blockType = "tt_data"

isDataType(blockType) == blockType \in {"data", "tt_data", "cbm_data"}

_calculateEndTime(e) ==
    IF e.EndSample < e.StartSample THEN e.StartSample ELSE e.EndSample + 1

\* the block from entry first to entry last, which ends at endTime unless its
\* start entry ends later (lines 125-131)
_block(blockType, first, last, endTime, startEntryEndTime) ==
    [IsBlock |-> TRUE, BlockType |-> blockType, StartEntry |-> first, EndEntry |-> last,
     BlockEndTime |-> IF endTime < startEntryEndTime THEN startEntryEndTime ELSE endTime,
     ConsumedEntries |-> last - first + 1]

_alone(entries, currentIndex) ==
    _block(entries[currentIndex].Type, currentIndex, currentIndex,
           _calculateEndTime(entries[currentIndex]),
           _calculateEndTime(entries[currentIndex]))

_withNext(entries, currentIndex) ==
    _block(entries[currentIndex].Type, currentIndex, currentIndex + 1,
           _calculateEndTime(entries[currentIndex + 1]),
           _calculateEndTime(entries[currentIndex]))

_noBlock ==
    [IsBlock |-> FALSE, BlockType |-> "", StartEntry |-> 0, EndEntry |-> 0,
     BlockEndTime |-> 0, ConsumedEntries |-> 1]

\* the variant that takes the lead behind a data segment along without
\* making it part of the block
_groupCaseSkip(entries, currentIndex, currentType, hasNext, nextType) ==
    IF isLeadType(currentType)
    THEN IF hasNext /\ nextType = "pause"
         THEN _withNext(entries, currentIndex) ELSE _alone(entries, currentIndex)
    ELSE IF isDataType(currentType)
    THEN IF hasNext /\ nextType = "pause" THEN _withNext(entries, currentIndex)
         ELSE IF hasNext /\ isLeadType(nextType)
         THEN [_alone(entries, currentIndex) EXCEPT !.ConsumedEntries = 2]
         ELSE IF hasNext /\ nextType = "tt_trailer" THEN _withNext(entries, currentIndex)
         ELSE _alone(entries, currentIndex)
    ELSE IF currentType = "tt_trailer" THEN _alone(entries, currentIndex)
    ELSE _noBlock

\* lines 48-121: the patterns of the kinds of the current and the next entry
_groupCase(entries, currentIndex, currentType, hasNext, nextType) ==
    IF isLeadType(currentType)
    THEN IF hasNext /\ nextType = "pause"
         THEN _withNext(entries, currentIndex) ELSE _alone(entries, currentIndex)
    ELSE IF isDataType(currentType)
    THEN IF hasNext /\ nextType = "pause" THEN _withNext(entries, currentIndex)
         ELSE IF hasNext /\ isLeadType(nextType) THEN _alone(entries, currentIndex)
         ELSE IF hasNext /\ nextType = "tt_trailer" THEN _withNext(entries, currentIndex)
         ELSE _alone(entries, currentIndex)
    ELSE IF currentType = "tt_trailer" THEN _alone(entries, currentIndex)
    ELSE _noBlock

\* currentIndex counts from 1 here
_getGroupedBlockInfo(entries, currentIndex) ==
    IF currentIndex > Len(entries) THEN _noBlock
    ELSE _groupCase(entries, currentIndex, entries[currentIndex].Type,
                    currentIndex + 1 <= Len(entries),
                    IF currentIndex + 1 <= Len(entries)
                    THEN entries[currentIndex + 1].Type ELSE "")

\* fmt.Sprintf("%03d", n): the decimal digits of n, zero-padded to three
RECURSIVE Decimal(_)
Decimal(n) ==
    IF n < 10 THEN <<n>> ELSE Append(Decimal(n \div 10), n % 10)

Pad3(n) ==
    IF n < 10 THEN <<0, 0, n>>
    ELSE IF n < 100 THEN <<0>> \o Decimal(n)
    ELSE Decimal(n)

\* fmt.Sprintf("block_%03d_%s.wav", blockCount, blockType)
wavFileName(blockCount, blockType) ==
    <<"block_">> \o Pad3(blockCount) \o <<"_", blockType, ".wav">>

\* the row of the table for the block groupInfo, lines 207-222
_row(entries, blockCount, groupInfo) ==
    [start_time |-> entries[groupInfo.StartEntry].StartSample,
     end_time |-> groupInfo.BlockEndTime,
     block |-> groupInfo.BlockType,
     idx_tag |-> entries[groupInfo.StartEntry].IDXTag,
     hex_start_time |-> entries[groupInfo.StartEntry].StartPosition,
     file |-> wavFileName(blockCount, groupInfo.BlockType),
     StartEntry |-> groupInfo.StartEntry,
     EndEntry |-> groupInfo.EndEntry]

\* the loop of ExportBlockInfo from entry idx on with blockCount blocks written:
\* the rows of the table and, as a record of the walk, the groups met
RECURSIVE ExportLoop(_, _, _)
ExportStep(entries, idx, blockCount, groupInfo) ==
    IF groupInfo.IsBlock
    THEN [rows |-> <<_row(entries, blockCount, groupInfo)>>
                      \o ExportLoop(entries, idx + groupInfo.ConsumedEntries,
                                    blockCount + 1).rows,
          walk |-> <<[at |-> idx, ConsumedEntries |-> groupInfo.ConsumedEntries,
                      IsBlock |-> TRUE]>>
                      \o ExportLoop(entries, idx + groupInfo.ConsumedEntries,
                                    blockCount + 1).walk]
    ELSE [rows |-> ExportLoop(entries, idx + groupInfo.ConsumedEntries, blockCount).rows,
          walk |-> <<[at |-> idx, ConsumedEntries |-> groupInfo.ConsumedEntries,
                      IsBlock |-> FALSE]>>
                      \o ExportLoop(entries, idx + groupInfo.ConsumedEntries,
                                    blockCount).walk]

ExportLoop(entries, idx, blockCount) ==
    IF idx > Len(entries) THEN [rows |-> <<>>, walk |-> <<>>]
    ELSE ExportStep(entries, idx, blockCount, _getGroupedBlockInfo(entries, idx))

ExportBlockInfo(entries, sampleRate) ==
    IF sampleRate <= 0 THEN [err |-> "rate", rows |-> <<>>, walk |-> <<>>]
    ELSE [err |-> "none", rows |-> ExportLoop(entries, 1, 0).rows,
          walk |-> ExportLoop(entries, 1, 0).walk]

(***************************************************************************)
(* SplitAndPackageBlocks.  pcmSamples is known by its length and a WAV     *)
(* member by the span [from, to) it takes out of it.  fault names the      *)
(* operation on the archive that fails, if one does ([op, at]: at is the   *)
(* blockCount of the WAV member concerned), closeErr the Close calls that  *)
(* return an error                                                         *)
(***************************************************************************)
NoFault == [op |-> "none", at |-> 0]

\* lines 151-175: the block has samples to write
_written(pcmLen, blockStartSample, blockEndSampleIndex) ==
    /\ blockStartSample >= 0
    /\ blockEndSampleIndex > blockStartSample
    /\ blockStartSample < pcmLen
    /\ Min2(blockEndSampleIndex, pcmLen) - blockStartSample # 0

_member(pcmLen, entries, blockCount, groupInfo) ==
    [Name |-> wavFileName(blockCount, groupInfo.BlockType),
     from |-> entries[groupInfo.StartEntry].StartSample,
     to |-> Min2(entries[groupInfo.EndEntry].EndSample + 1, pcmLen),
     StartEntry |-> groupInfo.StartEntry,
     EndEntry |-> groupInfo.EndEntry]

\* lines 134-206 from entry idx on, blockCount members written so far
RECURSIVE PackageLoop(_, _, _, _, _)
PackageWrite(pcmLen, entries, idx, blockCount, fault, groupInfo, later) ==
    IF fault.op \in {"wavHeader", "wavWrite"} /\ fault.at = blockCount
    THEN [err |-> fault.op, members |-> <<>>]
    ELSE [err |-> later.err,
          members |-> <<_member(pcmLen, entries, blockCount, groupInfo)>> \o later.members]

PackageStep(pcmLen, entries, idx, blockCount, fault, groupInfo, written) ==
    IF ~written
    THEN PackageLoop(pcmLen, entries, idx + groupInfo.ConsumedEntries, blockCount, fault)
    ELSE PackageWrite(pcmLen, entries, idx, blockCount, fault, groupInfo,
                      PackageLoop(pcmLen, entries, idx + groupInfo.ConsumedEntries,
                                  blockCount + 1, fault))

PackageGroup(pcmLen, entries, idx, blockCount, fault, groupInfo) ==
    PackageStep(pcmLen, entries, idx, blockCount, fault, groupInfo,
                /\ groupInfo.IsBlock
                /\ _written(pcmLen, entries[groupInfo.StartEntry].StartSample,
                            entries[groupInfo.EndEntry].EndSample + 1))

PackageLoop(pcmLen, entries, idx, blockCount, fault) ==
    IF idx > Len(entries) THEN [err |-> "none", members |-> <<>>]
    ELSE PackageGroup(pcmLen, entries, idx, blockCount, fault,
                      _getGroupedBlockInfo(entries, idx))

\* lines 121-220, the manifest written: the CSV made, the members, the CSV written
PackageRest(fault, csvData, wavs) ==
    IF csvData.err # "none" THEN [err |-> "csv", members |-> <<>>, csv |-> <<>>]
    ELSE IF wavs.err # "none" THEN [err |-> wavs.err, members |-> wavs.members, csv |-> <<>>]
    ELSE IF fault.op \in {"csvHeader", "csvWrite"}
    THEN [err |-> fault.op, members |-> wavs.members, csv |-> <<>>]
    ELSE [err |-> "none", members |-> wavs.members, csv |-> csvData.rows]

\* lines 82-220: what is written between the opening and the deferred closes
PackageBody(pcmLen, entries, sampleRate, fault) ==
    IF fault.op \in {"manifestHeader", "manifestWrite"}
    THEN [err |-> fault.op, members |-> <<>>, csv |-> <<>>]
    ELSE PackageRest(fault, ExportBlockInfo(entries, sampleRate),
                     PackageLoop(pcmLen, entries, 1, 0, fault))

\* the variant in which the last close error wins
deferCloseLast(err, closeErr) ==
    IF closeErr # "none" THEN closeErr ELSE err

\* a deferred close: its error becomes the result only when there is none yet
deferClose(err, closeErr) ==
    IF err = "none" /\ closeErr # "none" THEN closeErr ELSE err

closeResult(w, closeErr) == IF w \in closeErr THEN <<"close", w>> ELSE "none"

\* one deferred function: it closes the writers ws in turn
RECURSIVE closeAll(_, _, _)
closeAll(ws, err, closeErr) ==
    IF ws = <<>> THEN err
    ELSE closeAll(Tail(ws), deferClose(err, closeResult(Head(ws), closeErr)), closeErr)

\* the deferred functions in the order they are registered (lines 48 and 66),
\* each with the writers it closes
Deferred == << <<"file">>, <<"tar", "gzip">> >>

\* the deferred functions ds run last in, first out on the result err
RECURSIVE runDeferred(_, _, _, _)
runDeferred(ds, err, closed, closeErr) ==
    IF ds = <<>> THEN [err |-> err, closed |-> closed]
    ELSE runDeferred(SubSeq(ds, 1, Len(ds) - 1),
                     closeAll(ds[Len(ds)], err, closeErr),
                     closed \o ds[Len(ds)], closeErr)

PackageResult(body, out) ==
    [err |-> out.err, first |-> body.err,
     opened |-> <<"file", "gzip", "tar">>,
     closed |-> out.closed,
     members |-> body.members, csv |-> body.csv]

PackageClose(body, closeErr) ==
    PackageResult(body, runDeferred(Deferred, body.err, <<>>, closeErr))

SplitAndPackageBlocks(pcmLen, entries, sampleRate, fault, closeErr) ==
    IF sampleRate <= 0
    THEN [err |-> "rate", first |-> "rate", opened |-> <<>>, closed |-> <<>>,
          members |-> <<>>, csv |-> <<>>]
    ELSE IF fault.op = "create"
    THEN [err |-> "create", first |-> "create", opened |-> <<>>, closed |-> <<>>,
          members |-> <<>>, csv |-> <<>>]
    ELSE PackageClose(PackageBody(pcmLen, entries, sampleRate, fault), closeErr)

(***************************************************************************)
(* Entry points, after ProcessTAPData: the package is written (the CLI run *)
(* with -cpk) unless the output file cannot be created                     *)
(***************************************************************************)
Finish ==
    /\ pc = "returned"
    /\ pc' = "exit"
    /\ \E ioOK \in BOOLEAN :
          \E r \in {SplitAndPackageBlocks(ret.pcm, ret.index, SampleRate,
                                         IF ioOK THEN NoFault ELSE [op |-> "create", at |-> 0],
                                         {})} :
             IF ret.err
             THEN jobErr' = "process" /\ archive' = archive
             ELSE IF entry = "mobile" /\ ret.pcm = 0
             THEN jobErr' = "empty" /\ archive' = archive
             ELSE /\ jobErr' = IF r.err # "none" THEN "output" ELSE ""
                  /\ archive' = [done |-> TRUE, err |-> r.err, members |-> r.members,
                                 csv |-> r.csv]
    /\ UNCHANGED <<given, locals, tapData, version, idxEntries, idxFailed, ret>>

Next ==
    \/ ReadTapFile
    \/ ReadIdxFile
    \/ TTDataBlock
    \/ TTTrailerBlock
    \/ PauseBlock
    \/ DataLeadBlock
    \/ MergeAndReturn
    \/ Finish

Spec == Init /\ [][Next]_vars

(***************************************************************************)
(* Properties of the segment list                                          *)
(***************************************************************************)
RECURSIVE ByteSpanSum(_, _)
ByteSpanSum(index, k) ==
    IF k = 0 THEN 0
    ELSE ByteSpanSum(index, k - 1) + (index[k].EndPosition - index[k].StartPosition + 1)

RECURSIVE SampleSpanSum(_, _)
SampleSpanSum(index, k) ==
    IF k = 0 THEN 0
    ELSE SampleSpanSum(index, k - 1) + (index[k].EndSample - index[k].StartSample + 1)

Returned == ret.done /\ ~ret.err

\* C1: when ProcessTAPData returns without error on a valid TAP file, the byte
\* spans of the returned segments sum to fileLength - 20, every segment lies
\* inside the payload bytes [20, fileLength), and the sample spans sum to
\* len(pcm)
SegmentsCoverPayload ==
    Returned =>
        /\ ByteSpanSum(ret.index, Len(ret.index)) = Len(tapData) - TapHeaderSize
        /\ \A k \in 1..Len(ret.index) :
              /\ ret.index[k].StartPosition >= TapHeaderSize
              /\ ret.index[k].EndPosition < Len(tapData)
        /\ SampleSpanSum(ret.index, Len(ret.index)) = ret.pcm

\* what the code keeps of C1: the sample spans sum to len(pcm)
SampleSpansCoverPcm ==
    Returned => SampleSpanSum(ret.index, Len(ret.index)) = ret.pcm

\* C2: consecutive segments a, b of the segment list, while it is built, after
\* the IDX merge has re-sorted it and as returned, satisfy
\* b.startPosition = a.endPosition + 1 and b.startSample = a.endSample + 1
Contiguous(index) ==
    \A k \in 1..(Len(index) - 1) :
        /\ index[k + 1].StartPosition = index[k].EndPosition + 1
        /\ index[k + 1].StartSample = index[k].EndSample + 1

SegmentsContiguous == Contiguous(indexData) /\ Contiguous(ret.index)

\* a returned list of at least four segments that the IDX merge has tagged
SegmentsContiguousWitness ==
    /\ Returned
    /\ Len(ret.index) >= 4
    /\ \E k \in 1..Len(ret.index) : ret.index[k].IDXTag # <<>>

\* C3: for every emitted segment endPosition - startPosition + 1 is the number
\* of stream bytes rendered for it, and endPosition never exceeds
\* fileLength - 1 (pending Turbotape spans longer than the rest of the stream
\* included)
SpansAreConsumedBytes ==
    \A k \in 1..Len(blockLog) :
        /\ indexData[k].EndPosition - indexData[k].StartPosition + 1 = blockLog[k].rendered
        /\ indexData[k].EndPosition <= Len(tapData) - 1

\* C4: after a tt_head of payloadSize n > 0 with at least n * 8 + 7648 bytes
\* left in the stream, the next segment is a tt_data of exactly n * 8 bytes
\* and the one after it a tt_trailer of exactly 7648 bytes, and the run does
\* not return before both are emitted
HeadWithRoom(k) ==
    /\ blockLog[k].type = "tt_head"
    /\ blockLog[k].psize > 0
    /\ Len(tapData) - (blockLog[k].at + blockLog[k].bytesRead)
          >= blockLog[k].psize * PULSES_IN_BYTE + TrailerSize

TripletAfterHead ==
    \A k \in 1..Len(blockLog) :
        HeadWithRoom(k) =>
            /\ Len(blockLog) >= k + 1 =>
                  /\ indexData[k + 1].Type = "tt_data"
                  /\ indexData[k + 1].StartPosition = indexData[k].EndPosition + 1
                  /\ indexData[k + 1].EndPosition - indexData[k + 1].StartPosition + 1
                        = blockLog[k].psize * PULSES_IN_BYTE
            /\ Len(blockLog) >= k + 2 =>
                  /\ indexData[k + 2].Type = "tt_trailer"
                  /\ indexData[k + 2].EndPosition - indexData[k + 2].StartPosition + 1
                        = TrailerSize
            /\ pc \in {"returned", "exit", "break", "panic"} => Len(blockLog) >= k + 2

\* a triplet whose data span and whose trailer span both hold a zero byte
TripletAfterHeadWitness ==
    \E k \in 1..Len(blockLog) :
        /\ HeadWithRoom(k)
        /\ Len(blockLog) >= k + 2
        /\ \E q \in indexData[k + 1].StartPosition..indexData[k + 1].EndPosition :
              At(tapData, q) = 0
        /\ \E q \in indexData[k + 2].StartPosition..indexData[k + 2].EndPosition :
              At(tapData, q) = 0

\* C5: in producer order every tt_head that is not the last segment is followed
\* by a tt_data and every tt_data that is not the last segment by a tt_trailer,
\* whatever the head's blockId and addresses
TripletOrder ==
    \A k \in 1..(Len(blockLog) - 1) :
        /\ blockLog[k].type = "tt_head" => blockLog[k + 1].type = "tt_data"
        /\ blockLog[k].type = "tt_data" => blockLog[k + 1].type = "tt_trailer"

\* C5 as the code has it: the same for the heads whose payloadSize is positive
TripletOrderOfPayloadHeads ==
    \A k \in 1..(Len(blockLog) - 1) :
        /\ (blockLog[k].type = "tt_head" /\ blockLog[k].psize > 0)
              => blockLog[k + 1].type = "tt_data"
        /\ blockLog[k].type = "tt_data" => blockLog[k + 1].type = "tt_trailer"

\* a head with a payload, its data and its trailer, followed by a further segment
TripletOrderWitness ==
    \E k \in 1..(Len(blockLog) - 3) :
        /\ blockLog[k].type = "tt_head" /\ blockLog[k].psize > 0
        /\ blockLog[k + 1].type = "tt_data"
        /\ blockLog[k + 2].type = "tt_trailer"

(***************************************************************************)
(* Properties of the error paths                                           *)
(***************************************************************************)
\* the loop is about to dispatch on the byte at i
AtDispatch ==
    /\ pc = "loop" /\ i < Len(tapData)
    /\ ~(expectedDataSize > 0) /\ ~(expectedTrailerSize > 0)

\* the byte at i is a TAP v1 pause marker with fewer than three bytes after it
TruncatedPauseAt ==
    version = 1 /\ i < Len(tapData) /\ At(tapData, i) = 0 /\ i + 3 >= Len(tapData)

\* C6: in a TAP v1 stream a zero byte reached at dispatch with fewer than three
\* bytes after it makes ProcessTAPData return an error, no PCM and no segment
TruncatedPauseIsFatal ==
    [][(AtDispatch /\ TruncatedPauseAt)
         => (pc' = "returned"
             /\ ret' = [done |-> TRUE, pcm |-> 0, index |-> <<>>, err |-> TRUE])]_vars

\* the error return at a truncated pause, after segments with PCM were processed
TruncatedPauseIsFatalWitness ==
    /\ pc = "returned" /\ ret.err
    /\ TruncatedPauseAt
    /\ Len(indexData) >= 3 /\ pcmSamples > 0
    /\ ret.pcm = 0 /\ ret.index = <<>>

AllRecognizersFail ==
    /\ ~IsTurbotape250Lead(tapData, i, DefaultTolerance, PULSES_IN_BYTE).ok
    /\ ~IsCBMLead(tapData, i, DefaultTolerance, PULSES_IN_CBM_BYTE).ok
    /\ ~IsCBMData(tapData, i, DefaultTolerance, PULSES_IN_CBM_BYTE).ok

\* C7: ProcessTAPData returns an error only at a truncated TAP v1 pause and
\* never for a TAP v0 input; when all three recognizers fail at a non-zero byte
\* a generic lead or data segment is emitted and the loop goes on
RecognizerMismatchNotFatal ==
    [][/\ (~ret.err /\ ret'.err) => (AtDispatch /\ TruncatedPauseAt)
       /\ version = 0 => ~ret'.err
       /\ (AtDispatch /\ At(tapData, i) # 0 /\ AllRecognizersFail)
            => /\ pc' = "loop"
               /\ Len(indexData') = Len(indexData) + 1
               /\ indexData'[Len(indexData')].Type \in {"lead", "data"}
               /\ indexData'[Len(indexData')].StartPosition = i
               /\ i' > i]_vars

\* a Turbotape pilot with a broken sync train behind it became a generic data
\* segment and the run returned without error
RecognizerMismatchNotFatalWitness ==
    /\ Returned
    /\ \E k \in 1..Len(ret.index) :
          /\ ret.index[k].Type = "data"
          /\ ret.index[k].StartPosition >= TapHeaderSize
          /\ findPilot(tapData, ret.index[k].StartPosition, TT_HEAD, DefaultTolerance).found
          /\ ~IsTurbotape250Lead(tapData, ret.index[k].StartPosition, DefaultTolerance,
                                 PULSES_IN_BYTE).ok

\* C8: when the IDX sidecar exists and fails to parse, the conversion is not
\* aborted for it, with either entry point: it runs with no IDX entries and
\* every tag stays empty
IdxFailureNotFatal ==
    idxFailed =>
        /\ jobErr # "idx"
        /\ idxEntries = <<>>
        /\ \A k \in 1..Len(indexData) : indexData[k].IDXTag = <<>>

\* what the code keeps of C8: the CLI goes on without tags
IdxFailureNotFatalForMain ==
    (idxFailed /\ entry = "main") =>
        /\ jobErr # "idx"
        /\ idxEntries = <<>>
        /\ \A k \in 1..Len(indexData) : indexData[k].IDXTag = <<>>

(***************************************************************************)
(* ReadTAP on its own, over files given by their first 20 bytes and their  *)
(* length (lengths beyond 2^32 included)                                   *)
(***************************************************************************)
RTSignatures == {TapSignatureC64, [TapSignatureC64 EXCEPT ![1] = 99],
                 [TapSignatureC64 EXCEPT ![12] = 88]}
RTVersions == {0, 1, 2, 255}
\* declared sizes, as the four bytes at offset 16
RTDeclared == {<<0, 0, 0, 0>>, <<2, 0, 0, 0>>, <<0, 0, 1, 0>>, <<236, 255, 255, 255>>}
\* file lengths as digits: 0, 19, 20, 22, 65556, 2^32, 2^32 + 20, 2^32 + 22
RTSizes == {<<0, 0, 0>>, <<0, 0, 19>>, <<0, 0, 20>>, <<0, 0, 22>>, <<0, 1, 20>>,
            <<0, 65535, 65535>>, <<1, 0, 0>>, <<1, 0, 20>>, <<1, 0, 22>>}

RTHead(sig, v, d, size) ==
    IF size[1] = 0 /\ size[2] = 0 /\ size[3] < TapHeaderSize
    THEN SubSeq(sig \o <<v, 0, 0, 0>> \o d, 1, size[3])
    ELSE sig \o <<v, 0, 0, 0>> \o d

InitRT ==
    /\ \E r \in BOOLEAN, sig \in RTSignatures, v \in RTVersions, d \in RTDeclared,
          size \in RTSizes :
          rtFile = [readable |-> r, head |-> RTHead(sig, v, d, size), size |-> size]
    /\ rtResult = "none"
    /\ entry = "main" /\ clock = ClockPAL
    /\ tapFile = [readable |-> FALSE, data |-> <<>>]
    /\ idxFile = NoIdx
    /\ Idle
    /\ pauseIn = NoPause
    /\ pauseOut = NoPauseOut
    /\ waveIn = NoWave
    /\ waveOut = NoWaveOut
    /\ callIn = NoCall
    /\ callOut = NoCallOut /\ archive = NoArchive

RTRead ==
    /\ rtResult = "none"
    /\ rtFile # NoRtFile
    /\ rtResult' = IF ReadTAPCheck(rtFile.readable, rtFile.head, rtFile.size)
                   THEN "data" ELSE "error"
    /\ UNCHANGED <<entry, clock, tapFile, idxFile, pc, tapData, version, idxEntries,
                   idxFailed, locals, ret, jobErr, rtFile, pauseIn, pauseOut, waveIn, waveOut,
                   callIn, callOut, archive>>

NextRT == RTRead

SpecReadTAP == InitRT /\ [][NextRT]_vars

(***************************************************************************)
(* _processPauseBlock on its own, over TAP v1 pauses written by an encoder *)
(***************************************************************************)
\* the zero marker followed by the three little-endian bytes of cycles
EncodePause(cycles) ==
    <<0, cycles % 256, (cycles \div 256) % 256, (cycles \div 65536) % 256>>

PauseBytes == {0, 1, 2, 15, 16, 127, 128, 254, 255}
PauseCycles == {b0 + 256 * b1 + 65536 * b2 : b0 \in PauseBytes, b1 \in PauseBytes,
                                              b2 \in PauseBytes}
PauseAround == {<<>>, <<48>>, <<0, 0, 0, 0>>}

InitPause ==
    /\ \E c \in PauseCycles, before \in PauseAround, after \in PauseAround :
          pauseIn = [tapData |-> before \o EncodePause(c) \o after, i |-> Len(before),
                     cycles |-> c]
    /\ pauseOut = NoPauseOut
    /\ \E k \in {ClockPAL, ClockNTSC} : clock = k
    /\ entry = "main"
    /\ tapFile = [readable |-> FALSE, data |-> <<>>]
    /\ idxFile = NoIdx
    /\ Idle
    /\ rtFile = NoRtFile
    /\ rtResult = "none"
    /\ waveIn = NoWave
    /\ waveOut = NoWaveOut
    /\ callIn = NoCall
    /\ callOut = NoCallOut /\ archive = NoArchive

PauseDecode ==
    /\ pauseIn # NoPause
    /\ pauseOut = NoPauseOut
    /\ pauseOut' = _processPauseBlock(pauseIn.tapData, pauseIn.i, 1, clock, SampleRate)
    /\ UNCHANGED <<entry, clock, tapFile, idxFile, pc, tapData, version, idxEntries,
                   idxFailed, locals, ret, jobErr, rtFile, rtResult, pauseIn, waveIn, waveOut,
                   callIn, callOut, archive>>

NextPause == PauseDecode

SpecPause == InitPause /\ [][NextPause]_vars

(***************************************************************************)
(* Properties of ReadTAP and of the pause decoder                          *)
(***************************************************************************)
\* fileLength - 20 as digits, for a length of at least 20
PayloadSize(size) ==
    IF size[3] >= TapHeaderSize THEN <<size[1], size[2], size[3] - TapHeaderSize>>
    ELSE IF size[2] > 0 THEN <<size[1], size[2] - 1, size[3] - TapHeaderSize + Half>>
    ELSE <<size[1] - 1, Half - 1, size[3] - TapHeaderSize + Half>>

ValidTapFile(f) ==
    /\ ~(f.size[1] = 0 /\ f.size[2] = 0 /\ f.size[3] < TapHeaderSize)
    /\ SubSeq(f.head, 1, 12) = TapSignatureC64
    /\ f.head[13] \in {0, 1}
    /\ PayloadSize(f.size) = <<0>> \o DeclaredDataSize(f.head)

\* C9: ReadTAP returns the content of a file it could read if and only if the
\* file has at least 20 bytes, starts with C64-TAPE-RAW, has version 0 or 1 and
\* declares fileLength - 20 at offset 16; otherwise it returns an error
ReadTAPAcceptsExactlyValid ==
    (rtResult # "none" /\ rtFile.readable) => ((rtResult = "data") <=> ValidTapFile(rtFile))

\* what the code keeps of C9: a file below 2^32 + 20 bytes is accepted if and
\* only if it is valid, and a valid file is always accepted
ReadTAPAcceptsValidBelow4G ==
    (rtResult # "none" /\ rtFile.readable) =>
        /\ ValidTapFile(rtFile) => rtResult = "data"
        /\ (rtResult = "data" /\ rtFile.size[1] = 0) => ValidTapFile(rtFile)

\* C10: a TAP v1 pause of C cycles written as the zero marker and the three
\* little-endian bytes of C is decoded as exactly C cycles and takes 4 bytes
PauseRoundTrip ==
    pauseOut # NoPauseOut =>
        /\ ~pauseOut.err
        /\ pauseOut.cycles = pauseIn.cycles
        /\ pauseOut.bytesRead = 4

\* the largest count, 2^24 - 1, decoded at the very end of a stream
PauseRoundTripWitness ==
    /\ pauseOut # NoPauseOut
    /\ pauseIn.cycles = 16777215
    /\ pauseIn.i + 4 = Len(pauseIn.tapData)
    /\ pauseOut.cycles = 16777215 /\ pauseOut.bytesRead = 4


(***************************************************************************)
(* Properties of the rendering                                             *)
(***************************************************************************)
\* floor(c * r / k) as [q, r], from the halves of c (c * r itself may exceed
\* the checker's integers)
RECURSIVE FloorParts(_, _, _)
FloorParts(c, r, k) ==
    IF c <= 40000 THEN [q |-> (c * r) \div k, r |-> (c * r) % k]
    ELSE LET h == FloorParts(c \div 2, r, k)
             l == FloorParts(c % 2, r, k)
         IN  [q |-> 2 * h.q + l.q + (2 * h.r + l.r) \div k, r |-> (2 * h.r + l.r) % k]

\* the sum over the bytes d[lo..hi-1] of floor(b * 8 * r / k)
RECURSIVE SumOfFloors(_, _, _, _, _)
SumOfFloors(d, lo, hi, r, k) ==
    IF hi <= lo THEN 0
    ELSE IF hi = lo + 1 THEN (At(d, lo) * 8 * r) \div k
    ELSE SumOfFloors(d, lo, (lo + hi) \div 2, r, k) + SumOfFloors(d, (lo + hi) \div 2, hi, r, k)

\* the sample-count law for the segment blockLog[k]
SampleLawAt(k) ==
    LET b == blockLog[k]
    IN  IF b.type = "pause"
        THEN /\ b.pcm = FloorParts(b.totalCycles, SampleRate, clock).q
             /\ (version = 1 /\ b.bytesRead = 4) =>
                    b.totalCycles = At(tapData, b.at + 1) + 256 * At(tapData, b.at + 2)
                                    + 65536 * At(tapData, b.at + 3)
        ELSE b.pcm = SumOfFloors(tapData, b.at, b.at + b.rendered, SampleRate, clock)

\* C11: every rendered non-pause byte b contributes floor(b * 8 * sampleRate /
\* clock) samples and every pause of C cycles floor(C * sampleRate / clock)
\* samples, so a pulse segment's PCM length is the sum of its per-byte floors.
\* (Each segment is the last one of blockLog in the state after it is emitted.)
SampleCountLaw ==
    blockLog # <<>> => SampleLawAt(Len(blockLog))

\* 25,000 bytes of 0x30 under PAL gave 25,000 * 17 samples, which is not the
\* floor of the total, and a pause of 1,000,000 cycles was rendered after them
SampleCountLawWitness ==
    /\ clock = ClockPAL
    /\ \E k \in 1..Len(blockLog) :
          /\ blockLog[k].type # "pause"
          /\ blockLog[k].rendered = 25000
          /\ blockLog[k].pcm = 25000 * 17
          /\ blockLog[k].pcm # FloorParts(blockLog[k].totalCycles, SampleRate, clock).q
    /\ \E k \in 1..Len(blockLog) :
          blockLog[k].type = "pause" /\ blockLog[k].totalCycles = 1000000


(***************************************************************************)
(* generateWave and _generatePause on their own: a pulse segment is the    *)
(* concatenation of its pulses' waves, a pause segment one _generatePause  *)
(***************************************************************************)
MaxWaveLen == 12
MaxPauseLen == 40

InitWave ==
    /\ \/ \E n \in 1..2 : \E lens \in [1..n -> 0..MaxWaveLen] :
             waveIn = [kind |-> "pulse", lens |-> lens]
       \/ \E len \in 0..MaxPauseLen : waveIn = [kind |-> "pause", lens |-> <<len>>]
    /\ waveOut = NoWaveOut
    /\ entry = "main" /\ clock = ClockPAL
    /\ tapFile = [readable |-> FALSE, data |-> <<>>]
    /\ idxFile = NoIdx
    /\ Idle
    /\ rtFile = NoRtFile
    /\ rtResult = "none"
    /\ pauseIn = NoPause
    /\ pauseOut = NoPauseOut
    /\ callIn = NoCall
    /\ callOut = NoCallOut /\ archive = NoArchive

\* "waveData := generateWave(waveSamples, 127); pcm = append(pcm, waveData...)"
WaveRender ==
    /\ waveIn.kind = "pulse"
    /\ ~waveOut.done
    /\ waveOut' = [done |-> TRUE,
                   pcm |-> Concat([k \in 1..Len(waveIn.lens) |->
                                     generateWave(waveIn.lens[k], 127)])]
    /\ UNCHANGED <<entry, clock, tapFile, idxFile, pc, tapData, version, idxEntries,
                   idxFailed, locals, ret, jobErr, rtFile, rtResult, pauseIn, pauseOut,
                   waveIn, callIn, callOut, archive>>

\* "pcm = _generatePause(pauseSamples)"
PauseRender ==
    /\ waveIn.kind = "pause"
    /\ ~waveOut.done
    /\ waveOut' = [done |-> TRUE, pcm |-> _generatePause(waveIn.lens[1])]
    /\ UNCHANGED <<entry, clock, tapFile, idxFile, pc, tapData, version, idxEntries,
                   idxFailed, locals, ret, jobErr, rtFile, rtResult, pauseIn, pauseOut,
                   waveIn, callIn, callOut, archive>>

NextWave == WaveRender \/ PauseRender

SpecWave == InitWave /\ [][NextWave]_vars

CountOf(pcm, v) == Cardinality({j \in 1..Len(pcm) : pcm[j] = v})

\* C12: every pulse segment and every pause segment of n samples has, for even
\* n, exactly n/2 high samples (255) and n/2 low samples (1), and for odd n
\* exactly floor(n/2) low samples
WaveformSymmetry ==
    waveOut.done =>
        LET n == Len(waveOut.pcm)
        IN  /\ n % 2 = 0 => /\ CountOf(waveOut.pcm, 255) = n \div 2
                            /\ CountOf(waveOut.pcm, 1) = n \div 2
            /\ n % 2 = 1 => CountOf(waveOut.pcm, 1) = n \div 2

\* what the code keeps of C12: one pulse or one pause of n samples has
\* floor(n/2) high samples first and n - floor(n/2) low samples after them
WaveformHalves ==
    (waveOut.done /\ Len(waveIn.lens) = 1) =>
        LET n == Len(waveOut.pcm)
        IN  /\ n = waveIn.lens[1]
            /\ \A j \in 1..n : waveOut.pcm[j] = IF j <= n \div 2 THEN 255 ELSE 1


(***************************************************************************)
(* Scenarios of the specification                                          *)
(***************************************************************************)
\* the run on the TAP v1 file made of the header and the bytes 00 10 00 00 is over
MinimalPauseDone ==
    /\ tapFile = TapFile(1, <<"p">>)
    /\ ret.done

\* C13: the TAP v1 file whose payload is the single pause 00 10 00 00 is
\* processed without error into exactly one segment, a pause of 16 cycles and
\* 0 samples, with an empty PCM
MinimalPauseScenario ==
    MinimalPauseDone =>
        /\ ~ret.err
        /\ jobErr # "process"
        /\ Len(ret.index) = 1
        /\ ret.index[1].Type = "pause"
        /\ ret.index[1].EndSample - ret.index[1].StartSample + 1 = 0
        /\ Len(blockLog) = 1 /\ blockLog[1].totalCycles = 16
        /\ ret.pcm = 0

\* what the code does with that file: it fails at the truncated pause it finds
\* at offset 22, after four segments taken from the header
MinimalPauseFails ==
    MinimalPauseDone =>
        /\ ret.err /\ ret.index = <<>> /\ ret.pcm = 0
        /\ Len(blockLog) = 4
        /\ blockLog[1].type = "data" /\ blockLog[1].at = 0 /\ blockLog[1].bytesRead = 13
        /\ blockLog[2].type = "pause" /\ blockLog[2].at = 13
        /\ blockLog[3].type = "pause" /\ blockLog[3].at = 17
        /\ blockLog[4].type = "data" /\ blockLog[4].at = 21 /\ blockLog[4].bytesRead = 1
        /\ i = 22


(***************************************************************************)
(* mergeIDXData on its own, over the segment lists ProcessTAPData builds   *)
(* (contiguous from offset 0) and IDX entries in file order                *)
(***************************************************************************)
MaxSegments == 3

SegKinds == {"lead", "data", "pause", "cbm_head"}
SegLens == {20, 1001, 2001}

\* the list of the segments shape[1..n], each [kind, len], one after the other
RECURSIVE SegmentList(_)
SegmentList(shape) ==
    IF shape = <<>> THEN <<>>
    ELSE LET front == SegmentList(SubSeq(shape, 1, Len(shape) - 1))
             start == IF front = <<>> THEN 0 ELSE front[Len(front)].EndPosition + 1
             sample == IF front = <<>> THEN 0 ELSE front[Len(front)].EndSample + 1
             seg == shape[Len(shape)]
         IN  Append(front,
                    [StartSample |-> sample,
                     EndSample |-> sample + (IF seg.kind = "pause" THEN 0 ELSE 17 * seg.len) - 1,
                     Type |-> seg.kind,
                     StartPosition |-> start,
                     EndPosition |-> start + seg.len - 1,
                     IDXTag |-> <<>>,
                     BlockID |-> 0,
                     PilotEndPos |-> 0])

MergeEntryLists ==
    LET e(p, n) == [Position |-> p, Name |-> <<n>>]
    IN  {<<>>, <<e(2000, "X")>>, <<e(10, "X")>>, <<e(9000, "X")>>, <<e(3500, "X")>>,
         <<e(2000, "X"), e(10, "Y")>>, <<e(10, "X"), e(1000, "Y")>>,
         <<e(2000, "X"), e(2000, "Y")>>, <<e(3500, "X"), e(2500, "Y")>>,
         <<e(9000, "X"), e(1521, "Y")>>, <<e(3500, "X"), e(10, "Y"), e(2000, "Z")>>}

InitMerge ==
    /\ \E n \in 0..MaxSegments : \E shape \in [1..n -> [kind : SegKinds, len : SegLens]] :
          \E es \in MergeEntryLists :
             callIn = [fn |-> "mergeIDXData", indexData |-> SegmentList(shape),
                       idxEntries |-> es]
    /\ callOut = NoCallOut /\ archive = NoArchive
    /\ entry = "main" /\ clock = ClockPAL
    /\ tapFile = [readable |-> FALSE, data |-> <<>>]
    /\ idxFile = NoIdx
    /\ Idle
    /\ rtFile = NoRtFile
    /\ rtResult = "none"
    /\ pauseIn = NoPause
    /\ pauseOut = NoPauseOut
    /\ waveIn = NoWave
    /\ waveOut = NoWaveOut

\* every variable but callIn and callOut
rest == <<entry, clock, tapFile, idxFile, pc, tapData, version, idxEntries, idxFailed,
          locals, ret, jobErr, rtFile, rtResult, pauseIn, pauseOut, waveIn, waveOut,
          archive>>

\* the first application; sort.Slice leaves idxEntries sorted in the caller's slice
MergeOnce ==
    /\ callIn.fn = "mergeIDXData"
    /\ ~callOut.done
    /\ \E sortedEntries \in SortOutcomes(callIn.idxEntries, LessByPosition) :
          callOut' = [done |-> TRUE, again |-> FALSE, idxEntries |-> sortedEntries,
                      index |-> mergeIDXData(callIn.indexData, sortedEntries),
                      first |-> <<>>]
    /\ UNCHANGED <<rest, callIn>>

\* a second application to the list returned, with the same entries: sort.Slice
\* is a function of its input, so it orders them as it did before
MergeAgain ==
    /\ callIn.fn = "mergeIDXData"
    /\ callOut.done /\ ~callOut.again
    /\ callOut' = [callOut EXCEPT !.again = TRUE,
                                  !.first = callOut.index,
                                  !.index = mergeIDXData(callOut.index, callOut.idxEntries)]
    /\ UNCHANGED <<rest, callIn>>

NextMerge == MergeOnce \/ MergeAgain

SpecMerge == InitMerge /\ [][NextMerge]_vars

\* the segment an IDX position selects: the nearest start among the segments of
\* kind lead, data, cbm_head or tt_head at most MaxOffset away, the earliest of
\* two equally near; 0 for none
Selected(index, targetPos) ==
    LET d(q) == IF targetPos >= index[q].StartPosition
                THEN targetPos - index[q].StartPosition
                ELSE index[q].StartPosition - targetPos
        near == {q \in 1..Len(index) :
                    /\ index[q].Type \in {"lead", "data", "cbm_head", "tt_head"}
                    /\ d(q) <= 1500}
    IN  IF near = {} THEN 0
        ELSE CHOOSE q \in near : \A r \in near : d(q) < d(r) \/ (d(q) = d(r) /\ q <= r)

\* the tags after the entries es have been applied one after the other
TagsAfter(index, es) ==
    [q \in 1..Len(index) |->
        LET js == {j \in 1..Len(es) : Selected(index, es[j].Position) = q}
        IN  IF js = {} THEN index[q].IDXTag
            ELSE es[CHOOSE j \in js : \A h \in js : h <= j].Name]

\* C14: each IDX entry (targetPos, name), taken in the order of the positions,
\* sets tag := name on the segment of kind lead, data, cbm_head or tt_head
\* nearest to targetPos within 1500 (the earliest of two equally near) and on
\* no other; an entry without such a segment changes nothing
MergeSelectsNearest ==
    (callIn.fn = "mergeIDXData" /\ callOut.done /\ ~callOut.again) =>
        /\ Len(callOut.index) = Len(callIn.indexData)
        /\ \A q \in 1..Len(callOut.index) :
              callOut.index[q] =
                 [callIn.indexData[q] EXCEPT
                    !.IDXTag = TagsAfter(callIn.indexData, callOut.idxEntries)[q]]

\* with lead@[20..1020] and data@[1021..3021] the entry (2000, X) tagged the
\* data segment and nothing else
MergeSelectsNearestWitness ==
    /\ callIn.fn = "mergeIDXData" /\ callOut.done
    /\ callIn.idxEntries = <<[Position |-> 2000, Name |-> <<"X">>]>>
    /\ Len(callIn.indexData) = 3
    /\ callIn.indexData[2].Type = "lead" /\ callIn.indexData[2].StartPosition = 20
    /\ callIn.indexData[2].EndPosition = 1020
    /\ callIn.indexData[3].Type = "data" /\ callIn.indexData[3].EndPosition = 3021
    /\ callOut.index[3].IDXTag = <<"X">>
    /\ callOut.index[2].IDXTag = <<>> /\ callOut.index[1].IDXTag = <<>>

\* C15: applying mergeIDXData a second time, with the same IDX entries, to the
\* list a first application returned gives the same tags on the same segments
\* in the same order
MergeIdempotent ==
    (callIn.fn = "mergeIDXData" /\ callOut.done /\ callOut.again) =>
        callOut.index = callOut.first

\* a second application to a list in which two entries had tagged two segments
MergeIdempotentWitness ==
    /\ callIn.fn = "mergeIDXData" /\ callOut.done /\ callOut.again
    /\ Len(callIn.idxEntries) >= 2
    /\ \E q, r \in 1..Len(callOut.first) :
          /\ q # r
          /\ callOut.first[q].IDXTag # <<>> /\ callOut.first[r].IDXTag # <<>>
          /\ callOut.first[q].IDXTag # callOut.first[r].IDXTag
          /\ callOut.index[q].IDXTag = callOut.first[q].IDXTag

(***************************************************************************)
(* ExportBlockInfo and SplitAndPackageBlocks on their own, over contiguous *)
(* segment lists as ProcessTAPData builds them.  A data segment of pulses  *)
(* below three units and a pause below 23 cycles have no samples           *)
(***************************************************************************)
MaxGroupSegments == 4

AllKinds == {"lead", "data", "pause", "tt_head", "tt_data", "tt_trailer",
             "cbm_head", "cbm_data"}

SegmentShapes ==
    [kind : AllKinds, samples : {3}] \cup [kind : {"data", "pause"}, samples : {0}]

\* the list of the segments shape[1..n], each [kind, samples], one after the other
RECURSIVE EntryList(_)
EntryList(shape) ==
    IF shape = <<>> THEN <<>>
    ELSE LET front == EntryList(SubSeq(shape, 1, Len(shape) - 1))
             start == IF front = <<>> THEN 0 ELSE front[Len(front)].EndPosition + 1
             sample == IF front = <<>> THEN 0 ELSE front[Len(front)].EndSample + 1
             seg == shape[Len(shape)]
         IN  Append(front,
                    [StartSample |-> sample,
                     EndSample |-> sample + seg.samples - 1,
                     Type |-> seg.kind,
                     StartPosition |-> start,
                     EndPosition |-> start + 3,
                     IDXTag |-> <<>>,
                     BlockID |-> 0,
                     PilotEndPos |-> 0])

\* len(pcmSamples) for the list: one past the last sample
PcmLenOf(entries) ==
    IF entries = <<>> THEN 0 ELSE entries[Len(entries)].EndSample + 1

InitExport ==
    /\ \E n \in 0..MaxGroupSegments : \E shape \in [1..n -> SegmentShapes] :
          \E fn \in {"ExportBlockInfo", "SplitAndPackageBlocks"} :
             callIn = [fn |-> fn, entries |-> EntryList(shape),
                       pcmLen |-> PcmLenOf(EntryList(shape)),
                       sampleRate |-> SampleRate, fault |-> NoFault, closeErr |-> {}]
    /\ callOut = NoCallOut /\ archive = NoArchive
    /\ entry = "main" /\ clock = ClockPAL
    /\ tapFile = [readable |-> FALSE, data |-> <<>>]
    /\ idxFile = NoIdx
    /\ Idle
    /\ rtFile = NoRtFile
    /\ rtResult = "none"
    /\ pauseIn = NoPause
    /\ pauseOut = NoPauseOut
    /\ waveIn = NoWave
    /\ waveOut = NoWaveOut

ExportCall ==
    /\ callIn.fn = "ExportBlockInfo"
    /\ ~callOut.done
    /\ \E r \in {ExportBlockInfo(callIn.entries, callIn.sampleRate)} :
          callOut' = [done |-> TRUE, err |-> r.err, rows |-> r.rows, walk |-> r.walk]
    /\ UNCHANGED <<rest, callIn>>

PackageCall ==
    /\ callIn.fn = "SplitAndPackageBlocks"
    /\ ~callOut.done
    /\ \E r \in {SplitAndPackageBlocks(callIn.pcmLen, callIn.entries, callIn.sampleRate,
                                       callIn.fault, callIn.closeErr)} :
          callOut' = [done |-> TRUE, err |-> r.err, first |-> r.first,
                      opened |-> r.opened, closed |-> r.closed,
                      members |-> r.members, csv |-> r.csv]
    /\ UNCHANGED <<rest, callIn>>

NextExport == ExportCall \/ PackageCall

SpecExport == InitExport /\ [][NextExport]_vars

\* segment k of the list is a pause no lead or data segment stands in front of
StandalonePause(entries, k) ==
    /\ entries[k].Type = "pause"
    /\ (k = 1 \/ ~(isLeadType(entries[k - 1].Type) \/ isDataType(entries[k - 1].Type)))

\* C16: the walk of the grouper from the first entry, advancing by
\* ConsumedEntries, meets every segment exactly once; a segment that is not a
\* standalone pause is the start or end entry of exactly one emitted block, and
\* a standalone pause of none
GroupExhaustive ==
    (callIn.fn = "ExportBlockInfo" /\ callOut.done)
        => \A k \in 1..Len(callIn.entries) :
              /\ Cardinality({v \in 1..Len(callOut.walk) :
                                /\ callOut.walk[v].at <= k
                                /\ k < callOut.walk[v].at + callOut.walk[v].ConsumedEntries}) = 1
              /\ Cardinality({b \in 1..Len(callOut.rows) :
                                k \in {callOut.rows[b].StartEntry, callOut.rows[b].EndEntry}})
                    = IF StandalonePause(callIn.entries, k) THEN 0 ELSE 1

\* a list with a lead and its pause, a standalone pause and a data segment on
\* its own has been walked
GroupExhaustiveWitness ==
    /\ callIn.fn = "ExportBlockInfo" /\ callOut.done
    /\ Len(callIn.entries) = 4
    /\ callIn.entries[1].Type = "lead" /\ callIn.entries[2].Type = "pause"
    /\ callIn.entries[3].Type = "pause" /\ callIn.entries[4].Type = "tt_data"
    /\ Len(callOut.rows) = 2 /\ Len(callOut.walk) = 3
    /\ callOut.rows[1].EndEntry = 2 /\ callOut.rows[2].StartEntry = 4


(***************************************************************************)
(* The package against its CSV                                             *)
(***************************************************************************)
\* row b of blocks.csv names a WAV member of the archive that holds the span
\* of the block the row describes
RowHasMember(b) ==
    \E m \in 1..Len(archive.members) :
       /\ archive.members[m].Name = archive.csv[b].file
       /\ archive.members[m].StartEntry = archive.csv[b].StartEntry
       /\ archive.members[m].EndEntry = archive.csv[b].EndEntry

\* C17: in a package written without error every block of the grouper has
\* one WAV member and one CSV row of the same name, counted alike from 000, so
\* that every file blocks.csv lists is the member holding that row's block
PackageNamesAgree ==
    (archive.done /\ archive.err = "none")
        => /\ Len(archive.members) = Len(archive.csv)
           /\ \A b \in 1..Len(archive.csv) : RowHasMember(b)

\* the block of row b has at least one sample
RowSounds(b) ==
    ret.index[archive.csv[b].EndEntry].EndSample
        >= ret.index[archive.csv[b].StartEntry].StartSample

\* what the code does: a block without samples has a row and no member, and
\* the rows behind it name the member of a later block or none; the names agree
\* when every block has a sample
PackageNamesAgreeWhenSounding ==
    (archive.done /\ archive.err = "none")
        => /\ Len(archive.members)
                 = Cardinality({b \in 1..Len(archive.csv) : RowSounds(b)})
           /\ (\A b \in 1..Len(archive.csv) : RowSounds(b))
                 => \A b \in 1..Len(archive.csv) : RowHasMember(b)
           /\ \A m \in 1..Len(archive.members) :
                 archive.members[m].Name
                     = wavFileName(m - 1, ret.index[archive.members[m].StartEntry].Type)


(***************************************************************************)
(* SplitAndPackageBlocks with failing writes and failing closes            *)
(***************************************************************************)
MaxCloseSegments == 2

Writers == {"tar", "gzip", "file"}

\* the operations on the archive that may fail
Faults ==
    {NoFault}
    \cup [op : {"create", "manifestHeader", "manifestWrite", "csvHeader", "csvWrite"},
          at : {0}]
    \cup [op : {"wavHeader", "wavWrite"}, at : 0..1]

InitClose ==
    /\ \E n \in 0..MaxCloseSegments : \E shape \in [1..n -> SegmentShapes] :
          \E fault \in Faults : \E closeErr \in SUBSET Writers :
             callIn = [fn |-> "SplitAndPackageBlocks", entries |-> EntryList(shape),
                       pcmLen |-> PcmLenOf(EntryList(shape)),
                       sampleRate |-> SampleRate, fault |-> fault, closeErr |-> closeErr]
    /\ callOut = NoCallOut /\ archive = NoArchive
    /\ entry = "main" /\ clock = ClockPAL
    /\ tapFile = [readable |-> FALSE, data |-> <<>>]
    /\ idxFile = NoIdx
    /\ Idle
    /\ rtFile = NoRtFile
    /\ rtResult = "none"
    /\ pauseIn = NoPause
    /\ pauseOut = NoPauseOut
    /\ waveIn = NoWave
    /\ waveOut = NoWaveOut

NextClose == PackageCall

SpecClose == InitClose /\ [][NextClose]_vars

\* the writers of ws that were closed with an error, in the order of closing
RECURSIVE FailedCloses(_, _)
FailedCloses(ws, closeErr) ==
    IF ws = <<>> THEN <<>>
    ELSE (IF Head(ws) \in closeErr THEN <<Head(ws)>> ELSE <<>>)
         \o FailedCloses(Tail(ws), closeErr)

\* C18: once the output file is created, the tar writer, the gzip writer and the
\* file are each closed exactly once, in this order, on every way out; the
\* error returned is the first error of the processing, and the error of a
\* close is returned only when no processing error and no earlier close error
\* exists
CloseDiscipline ==
    (callIn.fn = "SplitAndPackageBlocks" /\ callOut.done)
        => /\ callOut.opened # <<>>
                 => callOut.closed = [k \in 1..Len(callOut.opened) |->
                                         callOut.opened[Len(callOut.opened) + 1 - k]]
           /\ callOut.opened = <<>> => callOut.closed = <<>>
           /\ callOut.first # "none" => callOut.err = callOut.first
           /\ callOut.first = "none"
                 => callOut.err = (IF FailedCloses(callOut.closed, callIn.closeErr) = <<>>
                                   THEN "none"
                                   ELSE <<"close",
                                          Head(FailedCloses(callOut.closed, callIn.closeErr))>>)

\* a write of a WAV member failed and every close failed too: the write's error
\* is returned
CloseDisciplineWitness ==
    /\ callIn.fn = "SplitAndPackageBlocks" /\ callOut.done
    /\ callIn.fault.op = "wavWrite" /\ callIn.closeErr = Writers
    /\ callOut.err = "wavWrite"
    /\ callOut.closed = <<"tar", "gzip", "file">>

\* the closes of gzip and of the file fail after a faultless processing: the
\* error of the gzip close is returned
CloseErrorSurfaces ==
    /\ callIn.fn = "SplitAndPackageBlocks" /\ callOut.done
    /\ callIn.fault = NoFault /\ callIn.closeErr = {"gzip", "file"}
    /\ callOut.err = <<"close", "gzip">>


(***************************************************************************)
(* The generic lead tone                                                   *)
(***************************************************************************)
\* the number of bytes of value v among tapData[start .. start + n - 1]
CountSame(data, start, n, v) ==
    Cardinality({j \in 0..(n - 1) : At(data, start + j) = v})

\* segment k of the returned list comes from the generic branch of
\* _processDataLeadBlock
IsGeneric(k) == ret.index[k].Type \in {"lead", "data"}

\* C19: a segment no recognizer matched is a lead exactly when at least
\* 25000 bytes remain from its first byte and at least 90% of these 25000 bytes
\* have the value of the first byte, and a data segment otherwise
GenericLeadRule ==
    (ret.done /\ ~ret.err)
        => \A k \in 1..Len(ret.index) :
              IsGeneric(k)
                 => (ret.index[k].Type = "lead"
                       <=> /\ Len(tapData) - ret.index[k].StartPosition >= MinLeadToneLength
                           /\ 10 * CountSame(tapData, ret.index[k].StartPosition,
                                             MinLeadToneLength,
                                             At(tapData, ret.index[k].StartPosition))
                                 >= 9 * MinLeadToneLength)

\* what the code does: the count stops at the first byte of another value, so
\* the first 22500 of the 25000 bytes must all have the value of the first one
GenericLeadRun ==
    (ret.done /\ ~ret.err)
        => \A k \in 1..Len(ret.index) :
              IsGeneric(k)
                 => (ret.index[k].Type = "lead"
                       <=> /\ Len(tapData) - ret.index[k].StartPosition >= MinLeadToneLength
                           /\ CountSame(tapData, ret.index[k].StartPosition, LeadRun,
                                        At(tapData, ret.index[k].StartPosition))
                                 = LeadRun)

\* a lead was returned whose last 2500 bytes have another value
GenericLeadRunWitness ==
    /\ ret.done /\ ~ret.err
    /\ \E k \in 1..Len(ret.index) :
          /\ ret.index[k].Type = "lead"
          /\ At(tapData, ret.index[k].StartPosition + LeadRun)
                # At(tapData, ret.index[k].StartPosition)


(***************************************************************************)
(* ReadBit on its own: every pulse value at every position of a short      *)
(* stream, under the profiles of the format table                          *)
(***************************************************************************)
ReadBitProfiles == {Ft(f) : f \in {CBM_HEAD, CBM_DATA, TT_HEAD, TT_DATA}}

InitReadBit ==
    /\ \E p \in 0..255 : \E a \in {0, 200} : \E pos \in -1..2 :
          \E F \in ReadBitProfiles : \E tol \in {0, DefaultTolerance} :
             callIn = [fn |-> "ReadBit", tapData |-> <<a, p>>, pos |-> pos,
                       lp |-> F.LP, sp |-> F.SP, tp |-> F.TP, tol |-> tol]
    /\ callOut = NoCallOut /\ archive = NoArchive
    /\ entry = "main" /\ clock = ClockPAL
    /\ tapFile = [readable |-> FALSE, data |-> <<>>]
    /\ idxFile = NoIdx
    /\ Idle
    /\ rtFile = NoRtFile
    /\ rtResult = "none"
    /\ pauseIn = NoPause
    /\ pauseOut = NoPauseOut
    /\ waveIn = NoWave
    /\ waveOut = NoWaveOut

ReadBitCall ==
    /\ callIn.fn = "ReadBit"
    /\ ~callOut.done
    /\ callOut' = [done |-> TRUE,
                   bit |-> ReadBit(callIn.tapData, callIn.pos, callIn.lp, callIn.sp,
                                   callIn.tp, callIn.tol)]
    /\ UNCHANGED <<rest, callIn>>

NextReadBit == ReadBitCall

SpecReadBit == InitReadBit /\ [][NextReadBit]_vars

\* the pulse ReadBit was called on has been read at a position of the stream
ReadBitDone ==
    /\ callIn.fn = "ReadBit" /\ callOut.done
    /\ 0 <= callIn.pos /\ callIn.pos < Len(callIn.tapData)

\* C20: at a position of the stream ReadBit fails exactly when the pulse p is
\* below SP - eps or above LP + eps; otherwise with a threshold TP it gives 0
\* for p < TP and 1 for p >= TP, and without one 0 when p is nearer to SP than
\* to LP and 1 when it is not; so under the Turbotape profile a zero byte is
\* never read as a bit
ReadBitLaw ==
    ReadBitDone
        => LET p == callIn.tapData[callIn.pos + 1]
               far(x, y) == IF x >= y THEN x - y ELSE y - x
           IN  /\ callOut.bit = -1
                     <=> (p < callIn.sp - callIn.tol \/ p > callIn.lp + callIn.tol)
               /\ (callOut.bit # -1 /\ callIn.tp # NA)
                     => callOut.bit = (IF p < callIn.tp THEN 0 ELSE 1)
               /\ (callOut.bit # -1 /\ callIn.tp = NA)
                     => callOut.bit = (IF far(p, callIn.sp) < far(p, callIn.lp) THEN 0 ELSE 1)
               /\ (p = 0 /\ callIn.sp = Ft(TT_HEAD).SP /\ callIn.tp = Ft(TT_HEAD).TP)
                     => callOut.bit = -1

\* a zero byte was offered under the Turbotape profile with the default
\* tolerance, and refused
ReadBitLawWitness ==
    /\ ReadBitDone
    /\ callIn.tapData[callIn.pos + 1] = 0
    /\ callIn.sp = Ft(TT_DATA).SP /\ callIn.lp = Ft(TT_DATA).LP /\ callIn.tp = Ft(TT_DATA).TP
    /\ callIn.tol = DefaultTolerance
    /\ callOut.bit = -1

\* a pulse at the same distance from SP and LP was read without a threshold: 1
ReadBitMidpoint ==
    /\ ReadBitDone
    /\ callIn.tp = NA
    /\ 2 * callIn.tapData[callIn.pos + 1] = callIn.sp + callIn.lp
    /\ callOut.bit = 1


(***************************************************************************)
(* The loaders on their own.  Everything but callIn and callOut is at rest *)
(***************************************************************************)
AtRest ==
    /\ callOut = NoCallOut /\ archive = NoArchive
    /\ entry = "main" /\ clock = ClockPAL
    /\ tapFile = [readable |-> FALSE, data |-> <<>>]
    /\ idxFile = NoIdx
    /\ Idle
    /\ rtFile = NoRtFile
    /\ rtResult = "none"
    /\ pauseIn = NoPause
    /\ pauseOut = NoPauseOut
    /\ waveIn = NoWave
    /\ waveOut = NoWaveOut

(***************************************************************************)
(* ReadByte: eight pulses out of a refused one, a 0 and a 1 of the profile *)
(***************************************************************************)
\* per profile, pulses read as: refused, 0, 1
BytePulses(f) == IF f.TP = NA THEN {0, 40, 80} ELSE {0, 30, 40}

InitReadByte ==
    /\ \E f \in ReadBitProfiles : \E ps \in [1..8 -> BytePulses(f)] :
          \E pos \in -1..1 : \E endi \in {LSbF, MSbF} :
             callIn = [fn |-> "ReadByte", tapData |-> ps, pos |-> pos,
                       lp |-> f.LP, sp |-> f.SP, tp |-> f.TP, endi |-> endi,
                       tol |-> DefaultTolerance]
    /\ AtRest

ReadByteCall ==
    /\ callIn.fn = "ReadByte"
    /\ ~callOut.done
    /\ callOut' = [done |-> TRUE,
                   byte |-> ReadByte(callIn.tapData, callIn.pos, callIn.lp, callIn.sp,
                                     callIn.tp, callIn.endi, callIn.tol)]
    /\ UNCHANGED <<rest, callIn>>

NextReadByte == ReadByteCall

SpecReadByte == InitReadByte /\ [][NextReadByte]_vars

\* bit k (0..7) of the sequence ReadBit gives from callIn.pos on
BitRead(k) ==
    ReadBit(callIn.tapData, callIn.pos + k, callIn.lp, callIn.sp, callIn.tp, callIn.tol)

RECURSIVE Pow2(_)
Pow2(k) == IF k = 0 THEN 1 ELSE 2 * Pow2(k - 1)

\* the sum of bits[k] * 2^w(k) over k in lo..7
RECURSIVE Weighted(_, _, _)
Weighted(bits, lo, w) ==
    IF lo > 7 THEN 0 ELSE bits[lo] * Pow2(w[lo]) + Weighted(bits, lo + 1, w)

\* the value of the eight binary digits of v in the opposite order
Reverse8(v) ==
    Weighted([k \in 0..7 |-> (v \div Pow2(k)) % 2], 0, [k \in 0..7 |-> 7 - k])

\* C21: ReadByte succeeds exactly when eight pulses stand at pos and every one
\* of them is read by ReadBit; its value has bit k of the sequence at weight
\* 2^(7-k) MSB-first and 2^k LSB-first, so that the two readings of the same
\* pulses are bit reversals of each other
ReadByteLaw ==
    (callIn.fn = "ReadByte" /\ callOut.done)
        => /\ callOut.byte # -1
                 <=> /\ callIn.pos >= 0
                     /\ callIn.pos + 8 <= Len(callIn.tapData)
                     /\ \A k \in 0..7 : BitRead(k) # -1
           /\ callOut.byte # -1
                 => /\ callOut.byte
                          = Weighted([k \in 0..7 |-> BitRead(k)], 0,
                                     IF callIn.endi = MSbF THEN [k \in 0..7 |-> 7 - k]
                                     ELSE [k \in 0..7 |-> k])
                    /\ Reverse8(callOut.byte)
                          = ReadByte(callIn.tapData, callIn.pos, callIn.lp, callIn.sp,
                                     callIn.tp,
                                     IF callIn.endi = MSbF THEN LSbF ELSE MSbF,
                                     callIn.tol)

\* the bits 0 0 0 0 0 0 1 0 were read LSB-first under the Turbotape profile: 64
ReadByteLawWitness ==
    /\ callIn.fn = "ReadByte" /\ callOut.done
    /\ callIn.tapData = <<30, 30, 30, 30, 30, 30, 40, 30>>
    /\ callIn.tp # NA /\ callIn.endi = LSbF
    /\ callOut.byte = 64


(***************************************************************************)
(* findPilot with the byte-valued pilot of Turbotape: a run of pilot bytes *)
(* behind a front of other pulses, and what may stand behind the run       *)
(***************************************************************************)
PilotRuns == {0, 1, 2, 3, 48, 49, 50, 51, 52}

PilotFronts == {12, TapHeaderSize}

\* behind the run: nothing, the sync byte, seven pulses of a pilot byte, a
\* pilot byte with a pulse no bit is read from, a pause marker
PilotTails ==
    {<<>>, TTBytes(<<9>>), SubSeq(TTBytes(<<2>>), 1, 7),
     [TTBytes(<<2>>) EXCEPT ![5] = 100], <<0>>}

InitPilot ==
    /\ \E front \in PilotFronts : \E z \in PilotRuns : \E tail \in PilotTails :
          \E pos \in {front, front + 1, front + 8} :
             callIn = [fn |-> "findPilot",
                       tapData |-> Rep(200, front) \o TTBytes(Rep(2, z)) \o tail,
                       pos |-> pos, fmtIdx |-> TT_HEAD, tol |-> DefaultTolerance]
    /\ AtRest

PilotCall ==
    /\ callIn.fn = "findPilot"
    /\ ~callOut.done
    /\ \E r \in {findPilot(callIn.tapData, callIn.pos, callIn.fmtIdx, callIn.tol)} :
          callOut' = [done |-> TRUE, endPos |-> r.pos, legal |-> r.found, err |-> r.err]
    /\ UNCHANGED <<rest, callIn>>

NextPilot == PilotCall

SpecPilot == InitPilot /\ [][NextPilot]_vars

\* the 8-pulse unit at q decodes to the pilot value of the format
PilotUnit(q) ==
    ReadByte(callIn.tapData, q, Ft(callIn.fmtIdx).LP, Ft(callIn.fmtIdx).SP,
             Ft(callIn.fmtIdx).TP, Ft(callIn.fmtIdx).Endian, callIn.tol)
        = Ft(callIn.fmtIdx).PV

\* the length of the maximal run of pilot units from callIn.pos on
PilotRun ==
    CHOOSE z \in 0..(Len(callIn.tapData) \div 8) :
       /\ \A k \in 0..(z - 1) : PilotUnit(callIn.pos + 8 * k)
       /\ ~PilotUnit(callIn.pos + 8 * z)

\* what the claim gives for the run z counted from callIn.pos
PilotResultFor(z) ==
    IF z >= 1
    THEN /\ callOut.endPos = callIn.pos + 8 * z
         /\ callOut.legal <=> (Ft(callIn.fmtIdx).PMin <= z /\ z <= PMaxDefault)
    ELSE ~callOut.legal /\ callOut.endPos = 0

DispatchFronts == {<<>>, <<112, 80>>}

\* address bytes with endAddr > startAddr, with endAddr < startAddr, none
DispatchBodies == {<<0, 16, 0, 32, 7>>, <<0, 32, 0, 16, 7>>, <<7>>}

DispatchBlocks ==
    {CBMBlock(p, t, b) : p \in {49, 50}, t \in {0, 1, 2, 5, 6}, b \in DispatchBodies}
    \cup {TTHead(p, t, 4096, 8192) : p \in {49, 50}, t \in {1, 2, 3}}
    \cup {Rep(48, 60), <<112, 80, 112>>}

InitDispatch ==
    /\ \E front \in DispatchFronts : \E blk \in DispatchBlocks : \E pos \in {0, 1} :
          callIn = [fn |-> "_processDataLeadBlock",
                    tapData |-> Rep(200, TapHeaderSize) \o front \o blk,
                    pos |-> TapHeaderSize + pos]
    /\ AtRest

DispatchCall ==
    /\ callIn.fn = "_processDataLeadBlock"
    /\ ~callOut.done
    /\ \E r \in {_processDataLeadBlock(callIn.tapData, callIn.pos, ClockPAL, SampleRate)} :
          callOut' = [done |-> TRUE, blockType |-> r.blockType,
                      bytesRead |-> r.bytesRead, blockID |-> r.blockID,
                      psize |-> r.psize, err |-> r.err]
    /\ UNCHANGED <<rest, callIn>>

NextDispatch == DispatchCall

SpecDispatch == InitDispatch /\ [][NextDispatch]_vars

\* what each recognizer says at the position of the call
TTHeadHere ==
    IsTurbotape250Lead(callIn.tapData, callIn.pos, DefaultTolerance, PULSES_IN_BYTE)

CBMHeadHere == IsCBMLead(callIn.tapData, callIn.pos, DefaultTolerance, PULSES_IN_CBM_BYTE)

CBMDataHere == IsCBMData(callIn.tapData, callIn.pos, DefaultTolerance, PULSES_IN_CBM_BYTE)

DispatchedAs(kind, r) ==
    callOut.blockType = kind /\ callOut.bytesRead = r.length /\ ~callOut.err

\* C23: the recognizers are tried in the order Turbotape head, CBM head, CBM
\* data, and the first that matches fixes the kind and the length of the
\* block; where CBM head and CBM data both match the block is a cbm_head, and
\* a cbm_data is emitted only where CBM head does not match
RecognizerOrder ==
    (callIn.fn = "_processDataLeadBlock" /\ callOut.done)
        => /\ TTHeadHere.ok => DispatchedAs("tt_head", TTHeadHere)
           /\ (~TTHeadHere.ok /\ CBMHeadHere.ok) => DispatchedAs("cbm_head", CBMHeadHere)
           /\ (~TTHeadHere.ok /\ ~CBMHeadHere.ok /\ CBMDataHere.ok)
                 => DispatchedAs("cbm_data", CBMDataHere)
           /\ (~TTHeadHere.ok /\ ~CBMHeadHere.ok /\ ~CBMDataHere.ok)
                 => callOut.blockType \in {"lead", "data"}
           /\ callOut.blockType = "cbm_data" => ~CBMHeadHere.ok

\* a block of file type 2 with endAddr > startAddr, which both CBM recognizers
\* match, was emitted as cbm_head
RecognizerOrderWitness ==
    /\ callIn.fn = "_processDataLeadBlock" /\ callOut.done
    /\ CBMHeadHere.ok /\ CBMDataHere.ok
    /\ CBMHeadHere.blockID = 2 /\ CBMHeadHere.psize = 4096
    /\ callOut.blockType = "cbm_head" /\ callOut.blockID = 2


(***************************************************************************)
(* IsTurbotape250Lead on heads with a defect                               *)
(***************************************************************************)
TTPilotLens == {49, 50, 51}

\* the countdown, one with a deviation, one a byte short
TTCountdowns ==
    {<<9, 8, 7, 6, 5, 4, 3, 2, 1>>, <<9, 8, 7, 6, 6, 4, 3, 2, 1>>, <<9, 8, 7, 6, 5, 4, 3, 2>>}

TTBlockIds == {0, 1, 2, 3}

\* <<startAddr, endAddr>>
TTAddrs == {<<4096, 8192>>, <<8192, 4096>>, <<0, 65535>>}

\* a defect of the stream at pulse `pulse` of the byte `at` bytes behind the
\* pilot: none, the stream ends there, or the pulse there can not be read
TTDefects ==
    {[kind |-> "none", at |-> 0, pulse |-> 0]}
    \cup {[kind |-> "cut", at |-> a, pulse |-> p] : a \in {5, 9, 12, 14, 17, 33, 34}, p \in {0, 3}}
    \cup {[kind |-> "bad", at |-> a, pulse |-> 3] : a \in {-40, -1, 3, 9, 11, 16, 29, 33}}

TTHeadBytes(pilotLen, countdown, blockId, addr) ==
    TTBytes(Rep(2, pilotLen) \o countdown \o <<blockId>>
            \o <<addr[1] % 256, addr[1] \div 256, addr[2] % 256, addr[2] \div 256>>
            \o Rep(65, 16) \o Rep(32, 3) \o <<90>>)

TTDefective(stream, defect, at) ==
    IF defect.kind = "cut" THEN SubSeq(stream, 1, Min2(at, Len(stream)))
    ELSE IF defect.kind = "bad" /\ at < Len(stream) THEN [stream EXCEPT ![at + 1] = 100]
    ELSE stream

InitTTLead ==
    /\ \E pilotLen \in TTPilotLens : \E countdown \in TTCountdowns :
       \E blockId \in TTBlockIds : \E addr \in TTAddrs : \E defect \in TTDefects :
       \E pos \in {TapHeaderSize, TapHeaderSize + 8} :
          callIn = [fn |-> "IsTurbotape250Lead",
                    tapData |-> TTDefective(Rep(200, TapHeaderSize)
                                               \o TTHeadBytes(pilotLen, countdown, blockId, addr),
                                            defect,
                                            TapHeaderSize + 8 * (pilotLen + defect.at)
                                               + defect.pulse),
                    pos |-> pos]
    /\ AtRest

TTLeadCall ==
    /\ callIn.fn = "IsTurbotape250Lead"
    /\ ~callOut.done
    /\ \E r \in {IsTurbotape250Lead(callIn.tapData, callIn.pos, DefaultTolerance,
                                    PULSES_IN_BYTE)} :
          callOut' = [done |-> TRUE, ok |-> r.ok, length |-> r.length,
                      blockID |-> r.blockID, psize |-> r.psize,
                      pilotEndPos |-> r.pilotEndPos]
    /\ UNCHANGED <<rest, callIn>>

NextTTLead == TTLeadCall

SpecTTLead == InitTTLead /\ [][NextTTLead]_vars

TTLeadDone == callIn.fn = "IsTurbotape250Lead" /\ callOut.done

\* the k-th 8-pulse unit from callIn.pos on, decoded MSB-first under the
\* TT-HEAD profile; -1 when the stream ends inside it or a pulse is unreadable
TTUnit(k) ==
    IF callIn.pos + 8 * k + 8 > Len(callIn.tapData) THEN -1
    ELSE ReadByte(callIn.tapData, callIn.pos + 8 * k, Ft(TT_HEAD).LP, Ft(TT_HEAD).SP,
                  Ft(TT_HEAD).TP, MSbF, DefaultTolerance)

\* the number of pilot bytes 0x02 from callIn.pos on
TTRun ==
    CHOOSE z \in 0..(Len(callIn.tapData) \div 8) :
       (\A k \in 0..(z - 1) : TTUnit(k) = 2) /\ TTUnit(z) # 2

\* C24: the Turbotape-head recognizer matches only if at least 50 pilot bytes
\* 0x02 start at the position and are followed at once by bytes decoding
\* MSB-first to 9, 8, .., 1 and by a readable blockId byte; a shorter pilot, a
\* deviation in the countdown or an unreadable pulse up to the blockId gives
\* no match; the reported pilotEnd is the position of the first countdown byte
TTLeadOnlyIf ==
    (TTLeadDone /\ callOut.ok)
        => \E z \in {TTRun} :
              /\ z >= Ft(TT_HEAD).PMin
              /\ \A k \in 1..9 : TTUnit(z + k - 1) = 10 - k
              /\ TTUnit(z + 9) # -1
              /\ callOut.blockID = TTUnit(z + 9)
              /\ callOut.pilotEndPos = callIn.pos + 8 * z

\* a head with exactly 50 pilot bytes, the countdown and a blockId matched, with
\* pilotEnd at the first countdown byte
TTLeadOnlyIfWitness ==
    /\ TTLeadDone /\ callOut.ok
    /\ callIn.pos = TapHeaderSize
    /\ callOut.pilotEndPos = TapHeaderSize + 400
    /\ callOut.blockID = 3
    /\ TTRun = 50

\* C25: a matched Turbotape head has payloadSize = endAddr - startAddr + 1, from
\* the 16-bit little-endian addresses behind the blockId, when the blockId is 1
\* or 2, and payloadSize = 0 for every other blockId
TTPayloadSize ==
    (TTLeadDone /\ callOut.ok)
        => \E z \in {TTRun} :
              callOut.psize =
                 IF TTUnit(z + 9) \in {1, 2}
                 THEN (TTUnit(z + 12) + 256 * TTUnit(z + 13))
                      - (TTUnit(z + 10) + 256 * TTUnit(z + 11)) + 1
                 ELSE 0

\* start 0x1000 and end 0x2000 gave 0x1001
TTPayloadSizeWitness ==
    /\ TTLeadDone /\ callOut.ok
    /\ callOut.blockID = 1
    /\ callOut.psize = 4097
    /\ \E z \in {TTRun} :
          /\ TTUnit(z + 10) + 256 * TTUnit(z + 11) = 4096
          /\ TTUnit(z + 12) + 256 * TTUnit(z + 13) = 8192


\* the unit k from callIn.pos lies whole inside the stream
TTUnitWhole(k) == callIn.pos + 8 * k + 8 <= Len(callIn.tapData)

\* the number of padding bytes 0x20 behind the 16 filename bytes
TTPadRun(z) == CHOOSE n \in 0..8 : (\A k \in 0..(n - 1) : TTUnit(z + 30 + k) = 32)
                                   /\ (n = 8 \/ TTUnit(z + 30 + n) # 32)

\* the unit at which the checksum is read when the filename was read whole
TTChecksumUnit(z) == z + 30 + TTPadRun(z)

\* C26: behind the four address bytes a filename or checksum byte that can not
\* be read is tolerated only where the stream ends inside it; an unreadable
\* pulse in a filename or checksum byte that lies whole inside the stream gives
\* no match
TTTailStrict ==
    (TTLeadDone /\ callOut.ok /\ callOut.blockID \in {1, 2})
        => \E z \in {TTRun} :
              /\ \A k \in 14..29 : TTUnit(z + k) = -1 => ~TTUnitWhole(z + k)
              /\ (\A k \in 14..29 : TTUnit(z + k) # -1)
                    => (TTUnit(TTChecksumUnit(z)) = -1 => ~TTUnitWhole(TTChecksumUnit(z)))

\* what the recognizer does: a filename byte that can not be read, for either
\* reason, ends the head there, and the head still matches
TTTailLenient ==
    (TTLeadDone /\ callOut.blockID \in {1, 2})
        => \E z \in {TTRun} :
              (/\ z >= Ft(TT_HEAD).PMin
               /\ \A k \in 1..9 : TTUnit(z + k - 1) = 10 - k
               /\ \A k \in 10..13 : TTUnit(z + k) # -1
               /\ \E k \in 14..29 : TTUnit(z + k) = -1)
                 => /\ callOut.ok
                    /\ callOut.length
                          = 8 * (z + CHOOSE k \in 14..29 :
                                      TTUnit(z + k) = -1
                                      /\ \A j \in 14..(k - 1) : TTUnit(z + j) # -1)

\* a head matched although a pulse of its third filename byte, whole inside the
\* stream, can not be read
TTTailLenientWitness ==
    /\ TTLeadDone /\ callOut.ok /\ callOut.blockID = 1
    /\ callIn.pos = TapHeaderSize
    /\ \E z \in {TTRun} :
          /\ TTUnitWhole(z + 16) /\ TTUnit(z + 16) = -1
          /\ TTUnit(z + 15) # -1
          /\ callOut.length = 8 * (z + 16)


(***************************************************************************)
(* cbm_readbit on every pair of pulse widths                               *)
(***************************************************************************)
CBMWidths == 0..110 \cup {255}

InitCBMBit ==
    /\ \E p1 \in CBMWidths : \E p2 \in CBMWidths :
          callIn = [fn |-> "cbm_readbit", tapData |-> <<p1, p2>>, pos |-> 0,
                    sp |-> Ft(CBM_HEAD).SP, mp |-> Ft(CBM_HEAD).MP, lp |-> Ft(CBM_HEAD).LP,
                    tol |-> DefaultTolerance]
    /\ AtRest

CBMBitCall ==
    /\ callIn.fn = "cbm_readbit"
    /\ ~callOut.done
    /\ \E r \in {cbm_readbit(callIn.tapData, callIn.pos, callIn.sp, callIn.mp, callIn.lp,
                             callIn.tol)} :
          callOut' = [done |-> TRUE, bit |-> r]
    /\ UNCHANGED <<rest, callIn>>

NextCBMBit == CBMBitCall

SpecCBMBit == InitCBMBit /\ [][NextCBMBit]_vars

CBMBitDone == callIn.fn = "cbm_readbit" /\ callOut.done

\* the ideal widths a pulse is within eps of, as classes
CBMNear(p) ==
    {c \in {PULSE_S, PULSE_M, PULSE_L} :
        abs(p - (CASE c = PULSE_S -> callIn.sp [] c = PULSE_M -> callIn.mp
                   [] OTHER -> callIn.lp)) < callIn.tol}

\* of these, the ones at the least distance
CBMNearest(p) ==
    {c \in CBMNear(p) :
        \A d \in CBMNear(p) :
           abs(p - (CASE c = PULSE_S -> callIn.sp [] c = PULSE_M -> callIn.mp
                      [] OTHER -> callIn.lp))
           <= abs(p - (CASE d = PULSE_S -> callIn.sp [] d = PULSE_M -> callIn.mp
                         [] OTHER -> callIn.lp))}

\* the bit or marker of a pair of classes, -1 for a pair that is none
CBMPairBit(c1, c2) ==
    IF c1 = PULSE_S /\ c2 = PULSE_M THEN 0
    ELSE IF c1 = PULSE_M /\ c2 = PULSE_S THEN 1
    ELSE IF c1 = PULSE_L /\ c2 = PULSE_M THEN 2
    ELSE IF c1 = PULSE_L /\ c2 = PULSE_S THEN 3
    ELSE -1

\* C27: a pulse within eps of two ideal widths (51..63 for S/M, 71..81 for M/L)
\* is classified as the nearer of the two, and cbm_readbit decodes the pair
\* from the classes so found instead of failing
CBMAmbiguityResolved ==
    (/\ CBMBitDone
     /\ CBMNear(callIn.tapData[1]) # {} /\ CBMNear(callIn.tapData[2]) # {}
     /\ Cardinality(CBMNear(callIn.tapData[1])) = 2
           \/ Cardinality(CBMNear(callIn.tapData[2])) = 2)
        => \E c1 \in CBMNearest(callIn.tapData[1]) :
           \E c2 \in CBMNearest(callIn.tapData[2]) : callOut.bit = CBMPairBit(c1, c2)

\* C28: cbm_readbit fails for every pair in which a pulse is within eps of none
\* of SP, MP, LP (width <= 32 or >= 102, zero included)
CBMOutsideFails ==
    (CBMBitDone /\ \E k \in 1..2 : CBMNear(callIn.tapData[k]) = {})
        => callOut.bit = -1

\* what cbm_readbit does: a pulse within eps of two widths fails the pair, and
\* of the others a pulse within eps of LP is L, one within eps of MP is M and
\* every other one, those within eps of no width included, is S
CBMClassOf(p) ==
    IF PULSE_L \in CBMNear(p) THEN PULSE_L
    ELSE IF PULSE_M \in CBMNear(p) THEN PULSE_M
    ELSE PULSE_S

CBMReadBitLaw ==
    CBMBitDone
        => callOut.bit =
              IF \E k \in 1..2 : Cardinality(CBMNear(callIn.tapData[k])) >= 2 THEN -1
              ELSE CBMPairBit(CBMClassOf(callIn.tapData[1]), CBMClassOf(callIn.tapData[2]))

\* the pair (52, 66), S/M-ambiguous and nearer to S, then M, failed
CBMAmbiguousFailed ==
    /\ CBMBitDone
    /\ callIn.tapData = <<52, 66>>
    /\ callOut.bit = -1

\* the pair (10, 66), a pulse within eps of no width and an M, was read as bit 0
CBMOutsideRead ==
    /\ CBMBitDone
    /\ callIn.tapData = <<10, 66>>
    /\ callOut.bit = 0


(***************************************************************************)
(* cbm_readbyte on byte frames with a defect                               *)
(***************************************************************************)
\* the frame of byte b; with eod its first pair is (L,S); with flip its
\* check pair is the opposite bit
CBMFrameOf(b, eod, flip) ==
    [q \in 1..20 |->
        IF q = 2 /\ eod THEN 48
        ELSE IF q = 19 /\ flip THEN CBMBytes(<<b>>)[20]
        ELSE IF q = 20 /\ flip THEN CBMBytes(<<b>>)[19]
        ELSE CBMBytes(<<b>>)[q]]

\* <<j, w>>: pulse j of the frame has the width w; <<0, 0>>: no defect
CBMFrameDefects ==
    {<<0, 0>>} \cup {<<j, w>> : j \in {1, 3, 4, 20}, w \in {0, 10, 52}}

\* in place, one pulse behind the start of the stream's 20th byte, one pulse short
CBMFramePlaces == {"whole", "early", "cut"}

CBMFrameStream(frame, defect, place) ==
    Rep(48, IF place = "early" THEN 19 ELSE 20)
    \o SubSeq([q \in 1..20 |-> IF q = defect[1] THEN defect[2] ELSE frame[q]],
              1, IF place = "cut" THEN 19 ELSE 20)

InitCBMByte ==
    /\ \E b \in 0..255 : \E eod \in BOOLEAN : \E flip \in BOOLEAN :
       \E defect \in CBMFrameDefects : \E place \in CBMFramePlaces :
          callIn = [fn |-> "cbm_readbyte",
                    tapData |-> CBMFrameStream(CBMFrameOf(b, eod, flip), defect, place),
                    pos |-> IF place = "early" THEN 19 ELSE 20,
                    sp |-> Ft(CBM_HEAD).SP, mp |-> Ft(CBM_HEAD).MP, lp |-> Ft(CBM_HEAD).LP,
                    tol |-> DefaultTolerance]
    /\ AtRest

CBMByteCall ==
    /\ callIn.fn = "cbm_readbyte"
    /\ ~callOut.done
    /\ \E r \in {cbm_readbyte(callIn.tapData, callIn.pos, callIn.sp, callIn.mp, callIn.lp,
                              callIn.tol)} :
          callOut' = [done |-> TRUE, val |-> r.val, pulses |-> r.pulses, err |-> r.err]
    /\ UNCHANGED <<rest, callIn>>

NextCBMByte == CBMByteCall

SpecCBMByte == InitCBMByte /\ [][NextCBMByte]_vars

CBMByteDone == callIn.fn = "cbm_readbyte" /\ callOut.done

\* what cbm_readbit makes of the k-th pair from callIn.pos on
CBMPairAt(k) ==
    cbm_readbit(callIn.tapData, callIn.pos + 2 * k, callIn.sp, callIn.mp, callIn.lp,
                callIn.tol)

\* 1 XOR the XOR of the eight data bits
CBMCheckBit == (1 + CBMPairAt(1) + CBMPairAt(2) + CBMPairAt(3) + CBMPairAt(4)
                  + CBMPairAt(5) + CBMPairAt(6) + CBMPairAt(7) + CBMPairAt(8)) % 2

CBMByteRefusals ==
    CBMByteDone
        => (\/ callIn.pos < 20 \/ callIn.pos + 20 > Len(callIn.tapData)
            \/ \E j \in 0..19 : At(callIn.tapData, callIn.pos + j) = 0
            \/ CBMPairAt(0) # 2
            \/ \E k \in 1..8 : CBMPairAt(k) \notin {0, 1}
            \/ CBMPairAt(9) # CBMCheckBit)
           <=> callOut.err


(***************************************************************************)
(* IsCBMLead on heads of every file type and address order                 *)
(***************************************************************************)
\* pilot pulses: the ideal width and the two ends of [SP - eps, SP + eps]
CBMPilotWidths == {48, 32, 64}

\* <<startAddr, endAddr>>
CBMAddrs == {<<4096, 8192>>, <<8192, 4096>>, <<4096, 4096>>, <<0, 65535>>}

\* behind the address bytes: the end-of-data marker, a byte and the marker,
\* the marker and a pause
CBMTails == {<<86, 48>>, CBMBytes(<<7>>) \o <<86, 48>>, <<86, 48, 48, 0, 64, 66, 15>>}

\* the sync sequence from lead on; with dev its fifth byte is one too small
CBMSyncBytes(lead, dev) == [k \in 1..9 |-> IF dev /\ k = 5 THEN lead - k ELSE lead - (k - 1)]

CBMHeadStream(width, pilotLen, lead, dev, fileType, addr, tail) ==
    Rep(200, TapHeaderSize) \o <<112, 80>> \o Rep(width, pilotLen)
    \o CBMBytes(CBMSyncBytes(lead, dev) \o <<fileType>>
                \o <<addr[1] % 256, addr[1] \div 256, addr[2] % 256, addr[2] \div 256>>)
    \o tail

InitCBMLead ==
    /\ \E width \in CBMPilotWidths : \E pilotLen \in {49, 50, 51} : \E lead \in {9, 137} :
       \E dev \in BOOLEAN : \E fileType \in {0, 1, 2, 5, 6} : \E addr \in CBMAddrs :
       \E tail \in CBMTails : \E pos \in {TapHeaderSize, TapHeaderSize + 2} :
          callIn = [fn |-> "IsCBMLead",
                    tapData |-> CBMHeadStream(width, pilotLen, lead, dev, fileType, addr, tail),
                    pos |-> pos]
    /\ AtRest

CBMLeadCall ==
    /\ callIn.fn = "IsCBMLead"
    /\ ~callOut.done
    /\ \E r \in {IsCBMLead(callIn.tapData, callIn.pos, DefaultTolerance, PULSES_IN_CBM_BYTE)} :
          callOut' = [done |-> TRUE, ok |-> r.ok, length |-> r.length,
                      blockID |-> r.blockID, psize |-> r.psize,
                      pilotEndPos |-> r.pilotEndPos]
    /\ UNCHANGED <<rest, callIn>>

NextCBMLead == CBMLeadCall

SpecCBMLead == InitCBMLead /\ [][NextCBMLead]_vars

CBMLeadDone == callIn.fn = "IsCBMLead" /\ callOut.done

\* the pulse at q is a short one: within [SP - eps, SP + eps]
CBMShortAt(q) ==
    /\ q < Len(callIn.tapData)
    /\ At(callIn.tapData, q) >= Ft(CBM_HEAD).SP - DefaultTolerance
    /\ At(callIn.tapData, q) <= Ft(CBM_HEAD).SP + DefaultTolerance

\* the number of consecutive short pulses from callIn.pos on
CBMShortRun ==
    CHOOSE z \in 0..Len(callIn.tapData) :
       (\A k \in 0..(z - 1) : CBMShortAt(callIn.pos + k)) /\ ~CBMShortAt(callIn.pos + z)

\* the k-th byte behind a run of z short pulses: [val, pulses, err]
CBMByteBehind(z, k) ==
    cbm_readbyte(callIn.tapData, callIn.pos + z + 20 * k, Ft(CBM_HEAD).SP, Ft(CBM_HEAD).MP,
                 Ft(CBM_HEAD).LP, DefaultTolerance)

\* at least 50 short pulses, the lead byte 0x89 or 0x09, the strict countdown,
\* a file type in [1,5] and four readable address bytes
CBMHeadShape(z) ==
    /\ z >= Ft(CBM_HEAD).PMin
    /\ \A k \in 0..13 : ~CBMByteBehind(z, k).err
    /\ CBMByteBehind(z, 0).val \in {9, 137}
    /\ \A k \in 1..8 : CBMByteBehind(z, k).val = CBMByteBehind(z, 0).val - k
    /\ CBMByteBehind(z, 9).val \in 1..5

CBMStartAddr(z) == CBMByteBehind(z, 10).val + 256 * CBMByteBehind(z, 11).val

CBMEndAddr(z) == CBMByteBehind(z, 12).val + 256 * CBMByteBehind(z, 13).val

CBMHeadReported(z) ==
    /\ callOut.ok
    /\ callOut.blockID = CBMByteBehind(z, 9).val
    /\ callOut.psize = CBMEndAddr(z) - CBMStartAddr(z)

\* C30: the CBM-head recognizer matches whenever at least 50 consecutive short
\* pulses are followed by a lead byte 0x89 or 0x09, the strict countdown, a file
\* type in [1,5] and four readable address bytes, whatever the addresses, and
\* reports blockId = file type and payloadSize = endAddr - startAddr
CBMHeadAnyAddress ==
    CBMLeadDone => \E z \in {CBMShortRun} : CBMHeadShape(z) => CBMHeadReported(z)

\* what the recognizer does: such a head matches exactly when endAddr > startAddr
CBMHeadAscending ==
    CBMLeadDone
        => \E z \in {CBMShortRun} :
              CBMHeadShape(z)
                 => IF CBMEndAddr(z) > CBMStartAddr(z) THEN CBMHeadReported(z)
                    ELSE ~callOut.ok

\* a head of file type 5 with pilot pulses of width 64 and addresses
\* 0x1000 / 0x2000 matched with payloadSize 0x1000
CBMHeadAscendingWitness ==
    /\ CBMLeadDone /\ callOut.ok
    /\ callOut.blockID = 5 /\ callOut.psize = 4096
    /\ At(callIn.tapData, callIn.pos) = 64
    /\ CBMShortRun = 50

\* a well-formed head of file type 1 whose addresses are both 0x1000 did not match
CBMHeadEqualAddressesRefused ==
    /\ CBMLeadDone /\ ~callOut.ok
    /\ \E z \in {CBMShortRun} :
          /\ CBMHeadShape(z)
          /\ CBMByteBehind(z, 9).val = 1
          /\ CBMStartAddr(z) = 4096 /\ CBMEndAddr(z) = 4096


(***************************************************************************)
(* The span of the recognized CBM segments                                 *)
(***************************************************************************)
\* the position behind segment k of the returned list
SegmentBehind(k) == ret.index[k].EndPosition + 1

\* C31: the span of every recognized CBM block, head or data, reaches to the
\* end of the run of non-zero bytes: the byte right behind a cbm_head or cbm_data
\* segment is a zero byte, or the segment ends at the end of the stream
CBMSpanToPause ==
    (ret.done /\ ~ret.err)
        => \A k \in 1..Len(ret.index) :
              ret.index[k].Type \in {"cbm_head", "cbm_data"}
                 => \/ SegmentBehind(k) >= Len(tapData)
                    \/ At(tapData, SegmentBehind(k)) = 0

\* what the recognizers do: a cbm_head reaches to the next zero byte when the
\* stream has one behind it, and a cbm_data ends where its end-of-data scan
\* stops, at the marker (L,S), at a pair that is no bit, or at the last pulse
CBMSpanLaw ==
    (ret.done /\ ~ret.err)
        => \A k \in 1..Len(ret.index) :
              /\ ret.index[k].Type = "cbm_head"
                    => \/ SegmentBehind(k) >= Len(tapData)
                       \/ At(tapData, SegmentBehind(k)) = 0
                       \/ \A q \in SegmentBehind(k)..(Len(tapData) - 1) : At(tapData, q) # 0
              /\ ret.index[k].Type = "cbm_data"
                    => \/ SegmentBehind(k) >= Len(tapData) - 1
                       \/ cbm_readbit(tapData, SegmentBehind(k), Ft(CBM_DATA).SP,
                                      Ft(CBM_DATA).MP, Ft(CBM_DATA).LP, DefaultTolerance)
                             \in {-1, 3}

\* a cbm_data segment ended at its end-of-data marker, two pulses before a pause
CBMSpanLawWitness ==
    /\ ret.done /\ ~ret.err
    /\ \E k \in 1..Len(ret.index) :
          /\ ret.index[k].Type = "cbm_data"
          /\ SegmentBehind(k) + 2 < Len(tapData)
          /\ At(tapData, SegmentBehind(k)) = 86
          /\ At(tapData, SegmentBehind(k) + 1) = 48
          /\ At(tapData, SegmentBehind(k) + 2) = 0


(***************************************************************************)
(* The pauses of a TAP v0 stream                                           *)
(***************************************************************************)
\* C32: in a TAP v0 stream every pause segment spans exactly 4 bytes, the zero
\* marker and three reserved bytes, and lasts exactly 20000 cycles, wherever
\* the marker stands, the last three bytes of the stream included
V0PauseSpan ==
    version = 0
        => \A k \in 1..Len(blockLog) :
              blockLog[k].type = "pause"
                 => blockLog[k].bytesRead = 4 /\ blockLog[k].totalCycles = V0PauseCycles

\* what _processPauseBlock does: 20000 cycles always; 4 bytes when three bytes
\* stand behind the marker, and the marker alone otherwise
V0PauseLaw ==
    version = 0
        => \A k \in 1..Len(blockLog) :
              blockLog[k].type = "pause"
                 => /\ blockLog[k].totalCycles = V0PauseCycles
                    /\ blockLog[k].pcm = cyclesToSamples(V0PauseCycles, clock, SampleRate)
                    /\ blockLog[k].bytesRead
                          = IF blockLog[k].at + 3 < Len(tapData) THEN 4 ELSE 1

\* in a v0 stream with the payload 70 50 00 the marker, the last byte, gave a
\* pause of one byte and 20000 cycles
V0PauseLawWitness ==
    /\ version = 0 /\ ret.done /\ ~ret.err
    /\ Len(tapData) = TapHeaderSize + 3
    /\ SubSeq(tapData, TapHeaderSize + 1, TapHeaderSize + 3) = <<112, 80, 0>>
    /\ \E k \in 1..Len(blockLog) :
          /\ blockLog[k].type = "pause" /\ blockLog[k].at = TapHeaderSize + 2
          /\ blockLog[k].bytesRead = 1 /\ blockLog[k].totalCycles = V0PauseCycles


(***************************************************************************)
(* The two sample values of the reconstructed waveform                     *)
(***************************************************************************)
\* C33: a pulse of n samples (generateWave with amplitude 127) and a pause of
\* n samples (_generatePause) are floor(n/2) samples of value 255 followed by
\* n - floor(n/2) samples of value 1, for every n >= 0; so every byte of the PCM
\* is 255 or 1 and none has the silence value 128
WaveformTwoValues ==
    waveOut.done
        => /\ Len(waveIn.lens) = 1
                 => /\ Len(waveOut.pcm) = waveIn.lens[1]
                    /\ \A j \in 1..Len(waveOut.pcm) :
                          waveOut.pcm[j] = IF j <= waveIn.lens[1] \div 2 THEN 255 ELSE 1
           /\ \A j \in 1..Len(waveOut.pcm) : waveOut.pcm[j] \in {255, 1}

\* a pulse of 11 samples came out as five 255 and six 1
WaveformTwoValuesWitness ==
    /\ waveOut.done
    /\ waveIn = [kind |-> "pulse", lens |-> <<11>>]
    /\ waveOut.pcm = <<255, 255, 255, 255, 255, 1, 1, 1, 1, 1, 1>>


(***************************************************************************)
(* mergeIDXData on lists with segments of every kind                       *)
(***************************************************************************)
\* the kinds in the order ProcessTAPData can emit them: a tt_data right behind
\* a tt_head, a tt_trailer right behind a tt_data
KindOrderPossible(shape) ==
    \A k \in 1..Len(shape) :
       /\ shape[k].kind = "tt_data" => k > 1 /\ shape[k - 1].kind = "tt_head"
       /\ shape[k].kind = "tt_trailer" => k > 1 /\ shape[k - 1].kind = "tt_data"

InitMergeKinds ==
    /\ \E n \in 0..MaxSegments :
       \E shape \in [1..n -> [kind : AllKinds, len : {20, 1001}]] :
       \E es \in MergeEntryLists :
          /\ KindOrderPossible(shape)
          /\ callIn = [fn |-> "mergeIDXData", indexData |-> SegmentList(shape),
                       idxEntries |-> es]
    /\ AtRest

SpecMergeKinds == InitMergeKinds /\ [][NextMerge]_vars

MergeDone == callIn.fn = "mergeIDXData" /\ callOut.done /\ ~callOut.again

\* C34: the IDX merge changes nothing but tags: it returns the same segments,
\* as many and with every field other than the tag unchanged, in the order of
\* (startPosition, endPosition, startTime), and it sets no tag on a segment of
\* kind pause, cbm_data, tt_data or tt_trailer
MergeTagsOnly ==
    MergeDone
        => /\ Len(callOut.index) = Len(callIn.indexData)
           /\ \A q \in 1..Len(callOut.index) :
                 /\ callOut.index[q]
                       = [callIn.indexData[q] EXCEPT !.IDXTag = callOut.index[q].IDXTag]
                 /\ callOut.index[q].Type \in {"pause", "cbm_data", "tt_data", "tt_trailer"}
                       => callOut.index[q].IDXTag = callIn.indexData[q].IDXTag
           /\ \A a, b \in 1..Len(callOut.index) :
                 a < b => ~LessCanonical(callOut.index[b], callOut.index[a])

\* the entry (1000, Y) is nearest to the start of a tt_data segment, 21 bytes
\* on; the tag went to the tt_head before it and the tt_data has none
MergeTagsOnlyWitness ==
    /\ MergeDone
    /\ Len(callOut.index) = 3
    /\ callOut.index[2].Type = "tt_head" /\ callOut.index[2].StartPosition = 20
    /\ callOut.index[3].Type = "tt_data" /\ callOut.index[3].StartPosition = 1021
    /\ \E j \in 1..Len(callIn.idxEntries) :
          callIn.idxEntries[j] = [Position |-> 1000, Name |-> <<"Y">>]
    /\ callOut.index[2].IDXTag = <<"Y">>
    /\ callOut.index[3].IDXTag = <<>>


(***************************************************************************)
(* Several IDX entries on one segment                                      *)
(***************************************************************************)
\* the entries of the sidecar, by their place in it, that select segment q
SelectorsOf(q) ==
    {j \in 1..Len(callIn.idxEntries) :
        Selected(callIn.indexData, callIn.idxEntries[j].Position) = q}

\* no segment but q has the name of an entry of js
NamesElsewhere(q, js) ==
    \E r \in 1..Len(callOut.index) : \E h \in js :
       r # q /\ callOut.index[r].IDXTag = callIn.idxEntries[h].Name

\* C35: when two or more IDX entries select the same segment, the segment
\* ends with the name of the entry with the greatest position, whatever the
\* order of the entries in the sidecar, and no other segment receives the
\* names of these entries
MergeLastWriter ==
    MergeDone
        => \A q \in 1..Len(callOut.index) :
              Cardinality(SelectorsOf(q)) >= 2
                 => /\ \E j \in SelectorsOf(q) :
                          /\ \A h \in SelectorsOf(q) \ {j} :
                                callIn.idxEntries[h].Position < callIn.idxEntries[j].Position
                          /\ callOut.index[q].IDXTag = callIn.idxEntries[j].Name
                    /\ ~NamesElsewhere(q, SelectorsOf(q))

\* what the merge does: the segment ends with the name of one of the entries
\* of greatest position; among entries of the same position the order in which
\* sort.Slice leaves them decides
MergeLastWriterLaw ==
    MergeDone
        => \A q \in 1..Len(callOut.index) :
              Cardinality(SelectorsOf(q)) >= 2
                 => /\ \E j \in SelectorsOf(q) :
                          /\ \A h \in SelectorsOf(q) :
                                callIn.idxEntries[h].Position <= callIn.idxEntries[j].Position
                          /\ callOut.index[q].IDXTag = callIn.idxEntries[j].Name
                    /\ ~NamesElsewhere(q, SelectorsOf(q))

\* the sidecar has (3500, X) before (2500, Y); both select one segment, which
\* ends with X
MergeLastWriterLawWitness ==
    /\ MergeDone
    /\ callIn.idxEntries = <<[Position |-> 3500, Name |-> <<"X">>],
                             [Position |-> 2500, Name |-> <<"Y">>]>>
    /\ \E q \in 1..Len(callOut.index) :
          SelectorsOf(q) = {1, 2} /\ callOut.index[q].IDXTag = <<"X">>

\* the sidecar has (2000, X) and (2000, Y); the segment both select ends with X
\* in one run and with Y in another
MergeTieOutcomes ==
    /\ MergeDone
    /\ callIn.idxEntries = <<[Position |-> 2000, Name |-> <<"X">>],
                             [Position |-> 2000, Name |-> <<"Y">>]>>
    /\ \E q \in 1..Len(callOut.index) :
          SelectorsOf(q) = {1, 2} /\ callOut.index[q].IDXTag = <<"X">>


(***************************************************************************)
(* The pairs of the block grouper                                          *)
(***************************************************************************)
LeadFamily == {"lead", "cbm_head", "tt_head"}

DataFamily == {"data", "cbm_data", "tt_data"}

\* the kind of the entry behind entry a, "" when a is the last
KindBehind(a) ==
    IF a + 1 <= Len(callIn.entries) THEN callIn.entries[a + 1].Type ELSE ""

\* the step at entry a takes the next entry along
PairsUp(a) ==
    \/ callIn.entries[a].Type \in (LeadFamily \cup DataFamily) /\ KindBehind(a) = "pause"
    \/ callIn.entries[a].Type \in DataFamily /\ KindBehind(a) = "tt_trailer"

\* C36: a grouping step consumes two segments exactly when the current one is
\* of the lead or the data family and the next is a pause, or the current one
\* is of the data family and the next is a tt_trailer, and one segment in every
\* other case; the block keeps the kind of the current segment; a standalone
\* tt_trailer is a block of its own and a standalone pause is consumed without
\* a block
GroupPairing ==
    (callIn.fn = "ExportBlockInfo" /\ callOut.done)
        => \A v \in 1..Len(callOut.walk) :
              /\ callOut.walk[v].ConsumedEntries = IF PairsUp(callOut.walk[v].at) THEN 2 ELSE 1
              /\ callOut.walk[v].IsBlock <=> callIn.entries[callOut.walk[v].at].Type # "pause"
              /\ callOut.walk[v].IsBlock
                    => \E b \in 1..Len(callOut.rows) :
                          /\ callOut.rows[b].StartEntry = callOut.walk[v].at
                          /\ callOut.rows[b].EndEntry
                                = callOut.walk[v].at + callOut.walk[v].ConsumedEntries - 1
                          /\ callOut.rows[b].block = callIn.entries[callOut.walk[v].at].Type

\* cbm_data with a tt_trailer behind it made one block of kind cbm_data, the
\* pause behind them was consumed alone and the tt_head behind it is a block
GroupPairingWitness ==
    /\ callIn.fn = "ExportBlockInfo" /\ callOut.done
    /\ Len(callIn.entries) = 4
    /\ callIn.entries[1].Type = "cbm_data" /\ callIn.entries[2].Type = "tt_trailer"
    /\ callIn.entries[3].Type = "pause" /\ callIn.entries[4].Type = "tt_head"
    /\ Len(callOut.walk) = 3 /\ Len(callOut.rows) = 2
    /\ callOut.walk[1].ConsumedEntries = 2
    /\ callOut.rows[1].block = "cbm_data" /\ callOut.rows[1].EndEntry = 2
    /\ ~callOut.walk[2].IsBlock


(***************************************************************************)
(* Progress and termination of the ProcessTAPData loop                     *)
(***************************************************************************)
\* the loop was left by the error of _processPauseBlock: a v1 marker with
\* fewer than three bytes behind it
TruncatedV1Pause ==
    /\ version = 1
    /\ i < Len(tapData) /\ At(tapData, i) = 0
    /\ i + 3 >= Len(tapData)

\* ProcessTAPData has returned after entering its loop
LoopLeft == pc \in {"returned", "exit"} /\ ret.done /\ Len(tapData) >= TapHeaderSize

\* every emitted segment took at least one byte, at a later offset than the one
\* before it
SegmentsAdvance ==
    \A k \in 1..Len(blockLog) :
        /\ blockLog[k].bytesRead >= 1
        /\ k > 1 => blockLog[k].at = blockLog[k - 1].at + blockLog[k - 1].bytesRead

LoopProgress ==
    /\ SegmentsAdvance
    /\ pc # "break"
    /\ pc = "panic" => /\ currentPosition > Len(tapData)
                       /\ Len(blockLog) > 0
                       /\ blockLog[Len(blockLog)].type \in {"tt_head", "tt_data"}
    /\ LoopLeft => IF ret.err THEN TruncatedV1Pause ELSE i >= Len(tapData)

\* C37: the cursor strictly increases across every iteration that stays in the
\* loop
CursorAdvances == [][pc = "loop" /\ pc' = "loop" => i' > i]_vars

\* a run left by the truncated-v1-pause error after at least one segment
LoopProgressWitness ==
    /\ LoopLeft /\ ret.err /\ TruncatedV1Pause
    /\ Len(blockLog) > 1

\* a run left by the panic
LoopPanics == pc = "panic"

\* the number of steps the pipeline can still take is bounded by the bytes left
LoopMeasure ==
    CASE pc = "start" -> Len(tapFile.data) + 6
      [] pc = "idx" -> Len(tapData) + 5
      [] pc = "loop" -> (IF i < Len(tapData) THEN Len(tapData) - i ELSE 0) + 3
      [] pc = "break" -> 2
      [] pc = "returned" -> 1
      [] OTHER -> 0

\* C37: the loop terminates on every finite input: every step lowers the
\* measure, which is never negative
LoopTerminates == [][LoopMeasure' < LoopMeasure /\ LoopMeasure' >= 0]_vars

(***************************************************************************)
(* The pending counters of ProcessTAPData as a three-valued state          *)
(***************************************************************************)
\* the state the two counters stand for at the head of an iteration
PendingState ==
    IF expectedDataSize > 0 THEN <<"AwaitingTTData", expectedDataSize>>
    ELSE IF expectedTrailerSize > 0 THEN <<"AwaitingTTTrailer", expectedTrailerSize>>
    ELSE <<"ReadyForDispatch", 0>>

\* the kind of the segment the step has appended, "" when it appended none
Emitted(before, after) ==
    IF Len(after) > Len(before) THEN after[Len(after)].type ELSE ""

\* the moves of the three-valued state: a pending data span is followed by a
\* pending trailer, a pending trailer by dispatch, and dispatch arms a data
\* span only by a tt_head
PendingMove(from, to, kind) ==
    CASE from[1] = "AwaitingTTData" ->
            /\ to = <<"AwaitingTTTrailer", TrailerSize>>
            /\ kind \in {"tt_data", ""}
      [] from[1] = "AwaitingTTTrailer" ->
            /\ to = <<"ReadyForDispatch", 0>>
            /\ kind \in {"tt_trailer", ""}
      [] OTHER ->
            /\ kind \notin {"tt_data", "tt_trailer"}
            /\ to[1] \in {"ReadyForDispatch", "AwaitingTTData"}
            /\ to[1] = "AwaitingTTData" => kind = "tt_head"

CountersExclusive ==
    /\ ~(expectedDataSize > 0 /\ expectedTrailerSize > 0)
    /\ expectedTrailerSize \in {0, TrailerSize}

\* C38: the two pending counters are never positive together,
\* expectedTrailerSize is 0 or 7648, and every iteration of the loop is a move
\* of the three-valued state {ReadyForDispatch, AwaitingTTData(n),
\* AwaitingTTTrailer(n)}, in which the pause and data/lead recognizers run only
\* from ReadyForDispatch
PendingRefinement ==
    [][/\ CountersExclusive /\ CountersExclusive'
       /\ (pc = "loop" /\ i < Len(tapData))
             => PendingMove(PendingState, PendingState', Emitted(blockLog, blockLog'))]_vars

\* a trailer is pending at the head of an iteration, right after a tt_data
PendingRefinementWitness ==
    /\ pc = "loop" /\ i < Len(tapData)
    /\ PendingState = <<"AwaitingTTTrailer", TrailerSize>>
    /\ Len(blockLog) > 1
    /\ blockLog[Len(blockLog)].type = "tt_data"
    /\ blockLog[Len(blockLog) - 1].type = "tt_head"


(***************************************************************************)
(* Zero bytes inside the segments of pulses                                *)
(***************************************************************************)
\* the offsets of the zero bytes inside the k-th emitted segment
ZerosIn(k) ==
    {q \in blockLog[k].at .. blockLog[k].at + blockLog[k].rendered - 1 :
        At(tapData, q) = 0}

\* C39 as stated: no segment of kind lead, data, tt_head, cbm_head or cbm_data
\* contains a zero byte
NoPauseSwallowed ==
    \A k \in 1..Len(blockLog) :
        blockLog[k].type \in {"lead", "data", "tt_head", "cbm_head", "cbm_data"}
            => ZerosIn(k) = {}

\* C39, what holds: lead, data and tt_head segments contain no zero byte; a
\* cbm_head or cbm_data segment may, since its recognizer skips every pulse
\* that is no short one in front of the pilot and reads a zero as a short
\* pulse in the end-of-data scan
NoPauseSwallowedLaw ==
    \A k \in 1..Len(blockLog) :
        blockLog[k].type \in {"lead", "data", "tt_head"} => ZerosIn(k) = {}

\* a tt_head right behind a pause and a data segment right in front of one
NoPauseSwallowedLawWitness ==
    \E k \in 1..Len(blockLog) : \E m \in 1..Len(blockLog) :
        /\ blockLog[k].type = "tt_head" /\ blockLog[m].type = "data"
        /\ k > 1 /\ blockLog[k - 1].type = "pause"
        /\ blockLog[m].at + blockLog[m].bytesRead < Len(tapData)
        /\ At(tapData, blockLog[m].at + blockLog[m].bytesRead) = 0

\* a cbm segment that holds a zero byte
CBMSwallowsPause ==
    \E k \in 1..Len(blockLog) :
        /\ blockLog[k].type \in {"cbm_head", "cbm_data"}
        /\ ZerosIn(k) # {}

(***************************************************************************)
(* Turbotape kinds in the segment list                                     *)
(***************************************************************************)
\* the kind in front of the k-th segment of the list idx, "" for the first
KindBefore(idx, k) == IF k > 1 THEN idx[k - 1].Type ELSE ""

KindsInTriplets(idx) ==
    \A k \in 1..Len(idx) :
        /\ idx[k].Type = "tt_data" => KindBefore(idx, k) = "tt_head"
        /\ idx[k].Type = "tt_trailer" => KindBefore(idx, k) = "tt_data"

\* C40: in the segment list, while it is built and as it is returned, every
\* tt_data segment is immediately preceded by a tt_head segment and every
\* tt_trailer segment by a tt_data segment; the first segment is never tt_data
\* or tt_trailer
TurbotapeTriplets ==
    /\ KindsInTriplets(indexData)
    /\ ret.done => KindsInTriplets(ret.index)

\* a returned list with two whole triplets
TurbotapeTripletsWitness ==
    /\ ret.done /\ ~ret.err
    /\ \E k \in 1..Len(ret.index) : \E m \in 1..Len(ret.index) :
          /\ k + 2 < m /\ m + 2 <= Len(ret.index)
          /\ ret.index[k].Type = "tt_head" /\ ret.index[m].Type = "tt_head"
          /\ ret.index[k + 2].Type = "tt_trailer" /\ ret.index[m + 2].Type = "tt_trailer"

====
